---------------------------- MODULE Spec2Model ----------------------------
(***************************************************************************)
(* Model of the PA court document parser: the content-stream interpreter   *)
(* of extraction.py (DocketReader / DocketPageObject) and, from            *)
(* parsing.py, the page-break filters, document-type detection,            *)
(* parse_extracted_text with the money visitor, flatten, the string leaf   *)
(* visitors and visit_county_section.                                      *)
(*                                                                         *)
(* Text is a sequence of one-character strings.  Lengths in text space     *)
(* (Td operands, displacements, tolerances, coordinates) are integers in   *)
(* thousandths of a text-space unit, so 0.3 is 300 and 1 is 1000; glyph    *)
(* widths are in glyph-space units (1/1000 of the font size) as in the     *)
(* font's /Widths, and font sizes are whole numbers.                       *)
(***************************************************************************)
EXTENDS Integers, Sequences, FiniteSets, TLC

VARIABLES
    doc,                \* the pdf: per page, its /Resources /Font dictionary
    phase,              \* "constructing" | "failed" | "constructed" | "extracting" | "done" | "aborted" | "idle"
    pages,              \* DocketReader._pages: the DocketPageObjects built so far
    page,               \* index of the page whose extract_text is running
    text_state,         \* extract_text local: TextState
    text_state_stack,   \* extract_text local
    segment,            \* extract_text local: the working TextSegment
    extracted_segments, \* extract_text local
    cur_displacement,   \* extract_text local
    extracted_text,     \* DocketReader.extract_text local: text of the pages done
    ignored,            \* history: the visitor was last called with an operator it ignores
    shown,              \* history: decoded text of the show operators of this page
    nops,               \* number of visitor calls made for the document
    document_type,      \* which page-break filter runs
    filter_text,        \* remove_*_page_breaks argument: extracted_text
    input_lines,        \* remove_*_page_breaks local
    output_lines,       \* remove_*_page_breaks local
    in_page_break,      \* remove_*_page_breaks local
    index,              \* remove_*_page_breaks local: loop index
    filtered_text,      \* the text remove_*_page_breaks returned
    fphase,             \* "called" | "filtering" | "returned" | the exception raised | "idle"
    pphase,             \* parse_extracted_text or flatten: "called" | "detected" | "parsed" |
                        \*   "returned" | the exception raised | "idle"
    grammar,            \* parse_extracted_text local: the grammar file the grammar was read from
    visitor,            \* parse_extracted_text local: the class of the visitor
    tree,               \* parse_extracted_text local: the text of the money nodes of the tree
    parsed,             \* parse_extracted_text local: the money_float of every money term
    visited_children,   \* flatten argument
    flattened           \* list(flatten(visited_children))

extraction_vars == <<doc, phase, pages, page, text_state, text_state_stack, segment,
                     extracted_segments, cur_displacement, extracted_text, ignored,
                     shown, nops>>
filter_vars == <<document_type, filter_text, input_lines, output_lines, in_page_break, index,
                 filtered_text, fphase>>
parse_vars == <<pphase, grammar, visitor, tree, parsed, visited_children, flattened>>
vars == <<extraction_vars, filter_vars, parse_vars>>

(***************************************************************************)
(* Bounds of the model.                                                    *)
(***************************************************************************)
MaxPages == 2
MaxOps == 5

(***************************************************************************)
(* DocketReader's special characters.                                      *)
(***************************************************************************)
terminator == "\n"
tab == "_"
comes_before == "|"
properties_open == "["
properties_close == "]"
box_wrap == "^"

get_special_characters_missing_properties_close ==
    {tab, terminator, properties_open, comes_before, box_wrap}

get_special_characters ==
    {tab, terminator, properties_open, properties_close, comes_before, box_wrap}

(***************************************************************************)
(* Generic helpers on sequences.                                           *)
(***************************************************************************)
None == <<>>

RECURSIVE Concat(_)
Concat(ss) == IF ss = <<>> THEN <<>> ELSE Head(ss) \o Concat(Tail(ss))

Range(s) == {s[i] : i \in 1..Len(s)}

\* str.__contains__: sub occurs in s
Contains(sub, s) ==
    \E i \in 1..(Len(s) - Len(sub) + 1) : SubSeq(s, i, i + Len(sub) - 1) = sub

UpperLetters == <<"A","B","C","D","E","F","G","H","I","J","K","L","M",
                  "N","O","P","Q","R","S","T","U","V","W","X","Y","Z">>
LowerLetters == <<"a","b","c","d","e","f","g","h","i","j","k","l","m",
                  "n","o","p","q","r","s","t","u","v","w","x","y","z">>

\* str.lower on the characters the model uses
lower(s) ==
    [i \in 1..Len(s) |->
        IF \E k \in 1..26 : UpperLetters[k] = s[i]
        THEN LowerLetters[CHOOSE k \in 1..26 : UpperLetters[k] = s[i]]
        ELSE s[i]]

(***************************************************************************)
(* The pdf's fonts: each page's /Resources /Font maps a resource name to a *)
(* font with a /BaseFont name, a ToUnicode map (character id -> character) *)
(* and widths (character id -> glyph width).                               *)
(***************************************************************************)
CharacterIds == {0, 1}

GoodFonts ==
    [F1 |-> [BaseFont    |-> <<"A","r","i","a","l">>,
             unicode_map |-> (0 :> "a" @@ 1 :> "b"),
             widths      |-> (0 :> 500 @@ 1 :> 600)],
     F2 |-> [BaseFont    |-> <<"A","r","i","a","l",",","B","o","l","d">>,
             unicode_map |-> (0 :> "c" @@ 1 :> " "),
             widths      |-> (0 :> 500 @@ 1 :> 250)]]

\* GoodFonts with character id 1 of font f decoding to ch
FontsWith(f, ch) ==
    [GoodFonts EXCEPT ![f].unicode_map = (0 :> GoodFonts[f].unicode_map[0] @@ 1 :> ch)]

\* characters a ToUnicode map may hold that collide with the reader's
CollidingCharacters == {"\n", "_", "|", "[", "]", "^"}

PageFonts ==
    {GoodFonts} \cup {FontsWith(f, ch) : f \in {"F1", "F2"}, ch \in CollidingCharacters}

Documents == UNION {[1..n -> PageFonts] : n \in 1..MaxPages}


(***************************************************************************)
(* DocketPageObject.__init__: the page's fonts and font_output_names.      *)
(***************************************************************************)
Bold == <<"b","o","l","d">>
Normal == <<"n","o","r","m","a","l">>

\* the reserved-character check over every font's unicode_map values
HasSpecialCharacterFirstFontOnly(fonts) ==
    \E cid \in DOMAIN fonts["F1"].unicode_map :
        fonts["F1"].unicode_map[cid] \in get_special_characters

HasSpecialCharacter(fonts) ==
    \E font_name \in DOMAIN fonts : \E cid \in DOMAIN fonts[font_name].unicode_map :
        fonts[font_name].unicode_map[cid] \in get_special_characters

font_output_name(font) ==
    IF Contains(Bold, lower(font.BaseFont)) THEN Bold ELSE Normal

DocketPageObject(fonts) ==
    [fonts |-> fonts,
     font_output_names |-> [font_name \in DOMAIN fonts |-> font_output_name(fonts[font_name])]]

(***************************************************************************)
(* TextSegment, TextState and the locals of DocketPageObject.extract_text. *)
(***************************************************************************)
TextSegment ==
    [content |-> <<>>, origin_coordinates |-> None, font_name |-> None,
     x_translation_from_origin |-> 0, y_translation_from_origin |-> 0]

TextStateWithoutSize(font_name, size) == [font_name |-> font_name, size |-> 0]

TextState(font_name, size) == [font_name |-> font_name, size |-> size]

\* x_tolerance=.3 and y_tolerance=1, in thousandths
x_tolerance == 300
y_tolerance == 1000

InitialLocals ==
    [text_state |-> TextState("", 0),
     text_state_stack |-> <<>>,
     segment |-> TextSegment,
     extracted_segments |-> <<>>,
     cur_displacement |-> 0,
     raised |-> "no"]

Abs(n) == IF n < 0 THEN -n ELSE n

\* DocketPageObject.mult: product of the shortened matrices tm and cm
mult(tm, cm) ==
    << tm[1] * cm[1] + tm[2] * cm[3],
       tm[1] * cm[2] + tm[2] * cm[4],
       tm[3] * cm[1] + tm[4] * cm[3],
       tm[3] * cm[2] + tm[4] * cm[4],
       tm[5] * cm[1] + tm[6] * cm[3] + cm[5],
       tm[5] * cm[2] + tm[6] * cm[4] + cm[6],
       1 >>

\* PdfFontWrapper.get_content_and_width
RECURSIVE get_content_and_width(_, _)
get_content_and_width(font, bs) ==
    IF bs = <<>> THEN [content |-> <<>>, width |-> 0]
    ELSE LET rest == get_content_and_width(font, Tail(bs))
         IN  [content |-> <<font.unicode_map[Head(bs)]>> \o rest.content,
              width   |-> font.widths[Head(bs)] + rest.width]

StripLastCharacter(content) == SubSeq(content, 1, Len(content) - 1)

\* terminate_segment's removal of a box_wrap that ends the content
StripTrailingBoxWrap(content) ==
    IF content[Len(content)] = box_wrap THEN SubSeq(content, 1, Len(content) - 1)
    ELSE content

\* terminate_segment: L are the locals, P the page object
terminate_segment(L, P) ==
    IF L.segment.content # <<>>
    THEN LET content == StripTrailingBoxWrap(L.segment.content)
         IN  IF L.text_state.font_name \notin DOMAIN P.font_output_names
             THEN [L EXCEPT !.segment.content = content, !.raised = "KeyError"]
             ELSE [L EXCEPT
                     !.extracted_segments =
                         Append(@, [L.segment EXCEPT
                                      !.content = content,
                                      !.font_name = P.font_output_names[L.text_state.font_name]]),
                     !.segment = TextSegment,
                     !.cur_displacement = 0]
    ELSE [L EXCEPT !.segment = TextSegment, !.cur_displacement = 0]

(***************************************************************************)
(* The 'Td' operator: which of the five cases of the if/elif chain a       *)
(* reposition (x_translation, y_translation) takes; 0 when none does.      *)
(***************************************************************************)
TdCaseNewLineFirst(seg, x_translation, y_translation) ==
    IF Abs(y_translation) >= y_tolerance THEN 3
    ELSE IF y_translation < 0
            /\ Abs(x_translation + seg.x_translation_from_origin) < x_tolerance THEN 1
    ELSE IF y_translation > 0
            /\ Abs(y_translation + seg.y_translation_from_origin) < y_tolerance THEN 2
    ELSE IF x_translation < 0 /\ seg.content # <<>> THEN 4
    ELSE IF x_translation > 0 /\ seg.content # <<>> THEN 5
    ELSE 0

TdCaseStrictlyExceeds(seg, x_translation, y_translation) ==
    IF y_translation < 0
       /\ Abs(x_translation + seg.x_translation_from_origin) < x_tolerance THEN 1
    ELSE IF y_translation > 0
            /\ Abs(y_translation + seg.y_translation_from_origin) < y_tolerance THEN 2
    ELSE IF Abs(y_translation) > y_tolerance THEN 3
    ELSE IF x_translation < 0 /\ seg.content # <<>> THEN 4
    ELSE IF x_translation > 0 /\ seg.content # <<>> THEN 5
    ELSE 0

TdCaseMarksEmptySegment(seg, x_translation, y_translation) ==
    IF y_translation < 0
       /\ Abs(x_translation + seg.x_translation_from_origin) < x_tolerance THEN 1
    ELSE IF y_translation > 0
            /\ Abs(y_translation + seg.y_translation_from_origin) < y_tolerance THEN 2
    ELSE IF Abs(y_translation) >= y_tolerance THEN 3
    ELSE IF x_translation < 0 THEN 4
    ELSE IF x_translation > 0 /\ seg.content # <<>> THEN 5
    ELSE 0

TdCase(seg, x_translation, y_translation) ==
    IF y_translation < 0
       /\ Abs(x_translation + seg.x_translation_from_origin) < x_tolerance THEN 1
    ELSE IF y_translation > 0
            /\ Abs(y_translation + seg.y_translation_from_origin) < y_tolerance THEN 2
    ELSE IF Abs(y_translation) >= y_tolerance THEN 3
    ELSE IF x_translation < 0 /\ seg.content # <<>> THEN 4
    ELSE IF x_translation > 0 /\ seg.content # <<>> THEN 5
    ELSE 0

TdBoxEndAlwaysTab(L, P, x_translation, y_translation) ==
    LET c == TdCase(L.segment, x_translation, y_translation)
        units_of_spacing == x_translation - L.cur_displacement
        L1 == CASE c = 1 ->
                    [L EXCEPT !.segment.content = Append(@, box_wrap),
                              !.segment.x_translation_from_origin = 0,
                              !.segment.y_translation_from_origin = @ + y_translation]
                [] c = 2 ->
                    [L EXCEPT !.segment.y_translation_from_origin = 0,
                              !.segment.x_translation_from_origin = 0,
                              !.segment.content = Append(@, tab)]
                [] c = 3 -> terminate_segment(L, P)
                [] c = 4 -> [L EXCEPT !.segment.content = Append(@, comes_before)]
                [] c = 5 ->
                    IF units_of_spacing > x_tolerance * L.text_state.size
                    THEN [L EXCEPT !.segment.content = Append(@, tab)]
                    ELSE IF units_of_spacing < -100
                    THEN L
                    ELSE [L EXCEPT !.segment.x_translation_from_origin = @ + x_translation]
                [] OTHER -> L
    IN  IF L1.raised # "no" THEN L1 ELSE [L1 EXCEPT !.cur_displacement = 0]

TdOverlapAccumulates(L, P, x_translation, y_translation) ==
    LET c == TdCase(L.segment, x_translation, y_translation)
        units_of_spacing == x_translation - L.cur_displacement
        L1 == CASE c = 1 ->
                    [L EXCEPT !.segment.content = Append(@, box_wrap),
                              !.segment.x_translation_from_origin = 0,
                              !.segment.y_translation_from_origin = @ + y_translation]
                [] c = 2 ->
                    [L EXCEPT !.segment.y_translation_from_origin = 0,
                              !.segment.x_translation_from_origin = 0,
                              !.segment.content =
                                  IF x_translation < 0 THEN Append(@, comes_before)
                                  ELSE Append(@, tab)]
                [] c = 3 -> terminate_segment(L, P)
                [] c = 4 -> [L EXCEPT !.segment.content = Append(@, comes_before)]
                [] c = 5 ->
                    IF units_of_spacing > x_tolerance * L.text_state.size
                    THEN [L EXCEPT !.segment.content = Append(@, tab)]
                    ELSE [L EXCEPT !.segment.x_translation_from_origin = @ + x_translation]
                [] OTHER -> L
    IN  IF L1.raised # "no" THEN L1 ELSE [L1 EXCEPT !.cur_displacement = 0]

Td(L, P, x_translation, y_translation) ==
    LET c == TdCase(L.segment, x_translation, y_translation)
        units_of_spacing == x_translation - L.cur_displacement
        L1 == CASE c = 1 ->
                    [L EXCEPT !.segment.content = Append(@, box_wrap),
                              !.segment.x_translation_from_origin = 0,
                              !.segment.y_translation_from_origin = @ + y_translation]
                [] c = 2 ->
                    [L EXCEPT !.segment.y_translation_from_origin = 0,
                              !.segment.x_translation_from_origin = 0,
                              !.segment.content =
                                  IF x_translation < 0 THEN Append(@, comes_before)
                                  ELSE Append(@, tab)]
                [] c = 3 -> terminate_segment(L, P)
                [] c = 4 -> [L EXCEPT !.segment.content = Append(@, comes_before)]
                [] c = 5 ->
                    IF units_of_spacing > x_tolerance * L.text_state.size
                    THEN [L EXCEPT !.segment.content = Append(@, tab)]
                    ELSE IF units_of_spacing < -100
                    THEN L
                    ELSE [L EXCEPT !.segment.x_translation_from_origin = @ + x_translation]
                [] OTHER -> L
    IN  IF L1.raised # "no" THEN L1 ELSE [L1 EXCEPT !.cur_displacement = 0]


(***************************************************************************)
(* The show operators.  A 'TJ' item is a byte-string [bytes |-> ...] or a  *)
(* number [number |-> ...].                                                *)
(***************************************************************************)
IsBytes(item) == "bytes" \in DOMAIN item

\* one byte-string shown: decoded, appended, its displacement accumulated
ShowBytes(L, P, bs) ==
    IF L.text_state.font_name \notin DOMAIN P.fonts
    THEN [L EXCEPT !.raised = "KeyError"]
    ELSE LET cw == get_content_and_width(P.fonts[L.text_state.font_name], bs)
             displacement == cw.width * L.text_state.size
         IN  [L EXCEPT !.cur_displacement = @ + displacement,
                       !.segment.content = @ \o cw.content]

RECURSIVE ShowItemsAddingAdjustments(_, _, _)
ShowItemsAddingAdjustments(L, P, items) ==
    IF items = <<>> \/ L.raised # "no" THEN L
    ELSE LET item == Head(items)
             L1 == IF IsBytes(item) THEN ShowBytes(L, P, item.bytes)
                   ELSE [L EXCEPT !.cur_displacement = @ + item.number * L.text_state.size]
         IN  ShowItemsAddingAdjustments(L1, P, Tail(items))

RECURSIVE ShowItems(_, _, _)
ShowItems(L, P, items) ==
    IF items = <<>> \/ L.raised # "no" THEN L
    ELSE LET item == Head(items)
             L1 == IF IsBytes(item) THEN ShowBytes(L, P, item.bytes)
                   ELSE [L EXCEPT !.cur_displacement = @ - item.number * L.text_state.size]
         IN  ShowItems(L1, P, Tail(items))

HandledOperators == {"Tf", "q", "Q", "ET", "Td", "Tj", "TJ"}
WarnedOperators == {"'", "\"", "Tc", "Tw", "Tz", "TL", "Ts", "gs", "T*", "TD"}
ShowOperators == {"TJ", "Tj"}

OriginSettersAny == HandledOperators \cup WarnedOperators

\* the operators on which the visitor fixes the segment's origin
OriginSetters == ShowOperators

(***************************************************************************)
(* operation_visitor: the locals after the visitor handled one operation.  *)
(***************************************************************************)
operation_visitor_restoring_oldest(L, P, operator, args, cm, tm) ==
    LET m == mult(tm, cm)
        L0 == IF operator \in OriginSetters /\ L.segment.origin_coordinates = None
              THEN [L EXCEPT !.segment.origin_coordinates = <<m[5], m[6]>>]
              ELSE L
    IN  CASE operator = "Tf" ->
                LET L1 == terminate_segment(L0, P)
                IN  IF L1.raised # "no" THEN L1
                    ELSE [L1 EXCEPT !.text_state = TextState(args[1], args[2])]
          [] operator = "q" ->
                [L0 EXCEPT !.text_state_stack = Append(@, L0.text_state)]
          [] operator = "Q" ->
                LET L1 == terminate_segment(L0, P)
                IN  IF L1.raised # "no" THEN L1
                    ELSE IF L1.text_state_stack = <<>>
                    THEN [L1 EXCEPT !.raised = "IndexError"]
                    ELSE [L1 EXCEPT
                            !.text_state = Head(L1.text_state_stack),
                            !.text_state_stack = Tail(@)]
          [] operator = "ET" -> terminate_segment(L0, P)
          [] operator = "Td" -> Td(L0, P, args[1], args[2])
          [] operator = "TJ" -> ShowItems(L0, P, args[1])
          [] operator = "Tj" -> ShowBytes(L0, P, args[1])
          [] OTHER -> L0

operation_visitor_moving_origin(L, P, operator, args, cm, tm) ==
    LET m == mult(tm, cm)
        L0 == IF operator \in OriginSetters
              THEN [L EXCEPT !.segment.origin_coordinates = <<m[5], m[6]>>]
              ELSE L
    IN  CASE operator = "Tf" ->
                LET L1 == terminate_segment(L0, P)
                IN  IF L1.raised # "no" THEN L1
                    ELSE [L1 EXCEPT !.text_state = TextState(args[1], args[2])]
          [] operator = "q" ->
                [L0 EXCEPT !.text_state_stack = Append(@, L0.text_state)]
          [] operator = "Q" ->
                LET L1 == terminate_segment(L0, P)
                IN  IF L1.raised # "no" THEN L1
                    ELSE IF L1.text_state_stack = <<>>
                    THEN [L1 EXCEPT !.raised = "IndexError"]
                    ELSE [L1 EXCEPT
                            !.text_state = L1.text_state_stack[Len(L1.text_state_stack)],
                            !.text_state_stack = SubSeq(@, 1, Len(@) - 1)]
          [] operator = "ET" -> terminate_segment(L0, P)
          [] operator = "Td" -> Td(L0, P, args[1], args[2])
          [] operator = "TJ" -> ShowItems(L0, P, args[1])
          [] operator = "Tj" -> ShowBytes(L0, P, args[1])
          [] OTHER -> L0

operation_visitor_font_select_keeps_segment(L, P, operator, args, cm, tm) ==
    LET m == mult(tm, cm)
        L0 == IF operator \in OriginSetters /\ L.segment.origin_coordinates = None
              THEN [L EXCEPT !.segment.origin_coordinates = <<m[5], m[6]>>]
              ELSE L
    IN  CASE operator = "Tf" ->
                [L0 EXCEPT !.text_state = TextState(args[1], args[2])]
          [] operator = "q" ->
                [L0 EXCEPT !.text_state_stack = Append(@, L0.text_state)]
          [] operator = "Q" ->
                LET L1 == terminate_segment(L0, P)
                IN  IF L1.raised # "no" THEN L1
                    ELSE IF L1.text_state_stack = <<>>
                    THEN [L1 EXCEPT !.raised = "IndexError"]
                    ELSE [L1 EXCEPT
                            !.text_state = L1.text_state_stack[Len(L1.text_state_stack)],
                            !.text_state_stack = SubSeq(@, 1, Len(@) - 1)]
          [] operator = "ET" -> terminate_segment(L0, P)
          [] operator = "Td" -> Td(L0, P, args[1], args[2])
          [] operator = "TJ" -> ShowItems(L0, P, args[1])
          [] operator = "Tj" -> ShowBytes(L0, P, args[1])
          [] OTHER -> L0

operation_visitor_restore_ignoring_empty_stack(L, P, operator, args, cm, tm) ==
    LET m == mult(tm, cm)
        L0 == IF operator \in OriginSetters /\ L.segment.origin_coordinates = None
              THEN [L EXCEPT !.segment.origin_coordinates = <<m[5], m[6]>>]
              ELSE L
    IN  CASE operator = "Tf" ->
                LET L1 == terminate_segment(L0, P)
                IN  IF L1.raised # "no" THEN L1
                    ELSE [L1 EXCEPT !.text_state = TextState(args[1], args[2])]
          [] operator = "q" ->
                [L0 EXCEPT !.text_state_stack = Append(@, L0.text_state)]
          [] operator = "Q" ->
                LET L1 == terminate_segment(L0, P)
                IN  IF L1.raised # "no" THEN L1
                    ELSE IF L1.text_state_stack = <<>>
                    THEN L1
                    ELSE [L1 EXCEPT
                            !.text_state = L1.text_state_stack[Len(L1.text_state_stack)],
                            !.text_state_stack = SubSeq(@, 1, Len(@) - 1)]
          [] operator = "ET" -> terminate_segment(L0, P)
          [] operator = "Td" -> Td(L0, P, args[1], args[2])
          [] operator = "TJ" -> ShowItems(L0, P, args[1])
          [] operator = "Tj" -> ShowBytes(L0, P, args[1])
          [] OTHER -> L0

operation_visitor(L, P, operator, args, cm, tm) ==
    LET m == mult(tm, cm)
        L0 == IF operator \in OriginSetters /\ L.segment.origin_coordinates = None
              THEN [L EXCEPT !.segment.origin_coordinates = <<m[5], m[6]>>]
              ELSE L
    IN  CASE operator = "Tf" ->
                LET L1 == terminate_segment(L0, P)
                IN  IF L1.raised # "no" THEN L1
                    ELSE [L1 EXCEPT !.text_state = TextState(args[1], args[2])]
          [] operator = "q" ->
                [L0 EXCEPT !.text_state_stack = Append(@, L0.text_state)]
          [] operator = "Q" ->
                LET L1 == terminate_segment(L0, P)
                IN  IF L1.raised # "no" THEN L1
                    ELSE IF L1.text_state_stack = <<>>
                    THEN [L1 EXCEPT !.raised = "IndexError"]
                    ELSE [L1 EXCEPT
                            !.text_state = L1.text_state_stack[Len(L1.text_state_stack)],
                            !.text_state_stack = SubSeq(@, 1, Len(@) - 1)]
          [] operator = "ET" -> terminate_segment(L0, P)
          [] operator = "Td" -> Td(L0, P, args[1], args[2])
          [] operator = "TJ" -> ShowItems(L0, P, args[1])
          [] operator = "Tj" -> ShowBytes(L0, P, args[1])
          [] OTHER -> L0

\* the text a show operation decodes (nothing for the other operators)
RECURSIVE DecodedItems(_, _)
DecodedItems(font, items) ==
    IF items = <<>> THEN <<>>
    ELSE (IF IsBytes(Head(items)) THEN get_content_and_width(font, Head(items).bytes).content
          ELSE <<>>) \o DecodedItems(font, Tail(items))

DecodedText(L, P, operator, args) ==
    IF operator \notin ShowOperators \/ L.text_state.font_name \notin DOMAIN P.fonts
    THEN <<>>
    ELSE IF operator = "Tj" THEN get_content_and_width(P.fonts[L.text_state.font_name], args[1]).content
    ELSE DecodedItems(P.fonts[L.text_state.font_name], args[1])

(***************************************************************************)
(* segment_to_str.  Coordinates are thousandths; round(coordinate, 2)      *)
(* gives hundredths (ties to even), and the format 06.2f zero-pads the     *)
(* rendering, sign included, to a width of at least 6.                     *)
(***************************************************************************)
Digit == <<"0","1","2","3","4","5","6","7","8","9">>

RECURSIVE Digits(_)
Digits(n) == IF n < 10 THEN <<Digit[n + 1]>> ELSE Digits(n \div 10) \o <<Digit[(n % 10) + 1]>>

round2(coordinate) ==
    LET q == coordinate \div 10
        r == coordinate % 10
    IN  IF r < 5 THEN q
        ELSE IF r > 5 THEN q + 1
        ELSE IF q % 2 = 0 THEN q ELSE q + 1

RECURSIVE ZeroPad(_, _)
ZeroPad(s, width) == IF Len(s) >= width THEN s ELSE ZeroPad(<<"0">> \o s, width)

\* f'{n:06.2f}' for n = hundredths / 100
format_06_2f(hundredths) ==
    LET a == Abs(hundredths)
        sign == IF hundredths < 0 THEN <<"-">> ELSE <<>>
        body == Digits(a \div 100) \o <<".">>
                \o <<Digit[((a % 100) \div 10) + 1], Digit[(a % 10) + 1]>>
    IN  sign \o ZeroPad(body, 6 - Len(sign))

segment_to_str_no_terminator(seg) ==
    seg.content \o <<properties_open>>
        \o format_06_2f(round2(seg.origin_coordinates[1])) \o <<",">>
        \o format_06_2f(round2(seg.origin_coordinates[2])) \o <<",">>
        \o seg.font_name \o <<properties_close>>

segment_to_str(seg) ==
    LET rounded_coordinates == [i \in 1..2 |-> round2(seg.origin_coordinates[i])]
        properties == format_06_2f(rounded_coordinates[1]) \o <<",">>
                      \o format_06_2f(rounded_coordinates[2]) \o <<",">>
                      \o seg.font_name
    IN  seg.content \o <<properties_open>> \o properties \o <<properties_close>>
        \o <<terminator>>


(***************************************************************************)
(* The operations a content stream may hold, and the matrices the engine   *)
(* passes with them.                                                       *)
(***************************************************************************)
TfArgs == {<<"F1", 10>>, <<"F2", 10>>}

TdArgs == {<<-5000, -12000>>, <<0, -12000>>, <<-5000, 12000>>,
           <<5000, 0>>, <<9000, 0>>, <<100, 0>>, <<-5000, 0>>, <<0, 1000>>, <<0, 500>>}

TJArgs == {<< <<[bytes |-> <<0>>], [number |-> -200], [bytes |-> <<1>>]>> >>}

OtherOperators == {"'", "Tc", "T*", "Tm"}

IdentityMatrix == <<1, 0, 0, 1, 0, 0>>

\* [cm, tm] pairs: a plain page, and a flipped page with text placed beyond 1000
PlainPlacement == [cm |-> IdentityMatrix, tm |-> <<1, 0, 0, 1, 72004, 700006>>]

FlippedPlacement == [cm |-> <<1, 0, 0, -1, 0, 792000>>, tm |-> <<1, 0, 0, 1, 1000004, 800000>>]

\* the operands and matrices of the Tj operations of a stream
TjShows ==
    { [args |-> << <<0>> >>, placement |-> PlainPlacement],
      [args |-> << <<0, 1>> >>, placement |-> PlainPlacement],
      [args |-> << <<0>> >>, placement |-> FlippedPlacement] }

DefaultPlacement == [cm |-> IdentityMatrix, tm |-> IdentityMatrix]

Locals ==
    [text_state |-> text_state,
     text_state_stack |-> text_state_stack,
     segment |-> segment,
     extracted_segments |-> extracted_segments,
     cur_displacement |-> cur_displacement,
     raised |-> "no"]

SetLocals(L) ==
    /\ text_state' = L.text_state
    /\ text_state_stack' = L.text_state_stack
    /\ segment' = L.segment
    /\ extracted_segments' = L.extracted_segments
    /\ cur_displacement' = L.cur_displacement

(***************************************************************************)
(* Actions of the extraction.                                              *)
(***************************************************************************)
InitExtraction ==
    /\ doc \in Documents
    /\ phase = "constructing"
    /\ pages = <<>>
    /\ page = 0
    /\ text_state = InitialLocals.text_state
    /\ text_state_stack = InitialLocals.text_state_stack
    /\ segment = InitialLocals.segment
    /\ extracted_segments = InitialLocals.extracted_segments
    /\ cur_displacement = InitialLocals.cur_displacement
    /\ extracted_text = <<>>
    /\ ignored = FALSE
    /\ shown = <<>>
    /\ nops = 0


FilterIdle ==
    /\ document_type = "none"
    /\ filter_text = <<>>
    /\ filtered_text = <<>>
    /\ input_lines = <<>>
    /\ output_lines = <<>>
    /\ in_page_break = FALSE
    /\ index = 0
    /\ fphase = "idle"

ParseIdle ==
    /\ pphase = "idle"
    /\ grammar = "none"
    /\ visitor = "none"
    /\ tree = <<>>
    /\ parsed = <<>>
    /\ visited_children = <<>>
    /\ flattened = <<>>

Init == InitExtraction /\ FilterIdle /\ ParseIdle

\* DocketReader.__init__: the next DocketPageObject of the list is built
ConstructPage ==
    /\ phase = "constructing"
    /\ LET fonts == doc[Len(pages) + 1]
       IN  IF HasSpecialCharacter(fonts)
           THEN /\ phase' = "failed"
                /\ pages' = pages
           ELSE /\ pages' = Append(pages, DocketPageObject(fonts))
                /\ phase' = IF Len(pages) + 1 = Len(doc) THEN "constructed" ELSE phase
    /\ UNCHANGED <<doc, page, text_state, text_state_stack, segment, extracted_segments,
                   cur_displacement, extracted_text, ignored, shown, nops>>
    /\ UNCHANGED <<filter_vars, parse_vars>>

\* DocketReader.extract_text is called: the first page's extract_text starts
ExtractText ==
    /\ phase = "constructed"
    /\ phase' = "extracting"
    /\ page' = 1
    /\ extracted_text' = <<>>
    /\ SetLocals(InitialLocals)
    /\ shown' = <<>>
    /\ UNCHANGED <<doc, pages, ignored, nops>>
    /\ UNCHANGED <<filter_vars, parse_vars>>

\* the engine calls the visitor with one operation of the page's stream
Visit(operator, args, placement) ==
    /\ phase = "extracting"
    /\ nops < MaxOps
    /\ LET P == pages[page]
           L == operation_visitor(Locals, P, operator, args, placement.cm, placement.tm)
       IN  /\ SetLocals(L)
           /\ phase' = IF L.raised # "no" THEN "aborted" ELSE phase
           /\ shown' = IF L.raised # "no" THEN shown
                       ELSE shown \o DecodedText(Locals, P, operator, args)
    /\ ignored' = (operator \notin HandledOperators)
    /\ nops' = nops + 1
    /\ UNCHANGED <<doc, pages, page, extracted_text>>
    /\ UNCHANGED <<filter_vars, parse_vars>>

VisitTf == \E args \in TfArgs : Visit("Tf", args, DefaultPlacement)
VisitSave == Visit("q", <<>>, DefaultPlacement)
VisitRestore == Visit("Q", <<>>, DefaultPlacement)
VisitET == Visit("ET", <<>>, DefaultPlacement)
VisitTd == \E args \in TdArgs : Visit("Td", args, DefaultPlacement)
VisitTj == \E show \in TjShows : Visit("Tj", show.args, show.placement)
VisitTJ == \E args \in TJArgs : Visit("TJ", args, FlippedPlacement)
VisitOther == \E operator \in OtherOperators : Visit(operator, <<>>, DefaultPlacement)

EndPageKeepingStateStack ==
    /\ phase = "extracting"
    /\ IF \E i \in 1..Len(extracted_segments) : extracted_segments[i].origin_coordinates = None
       THEN /\ phase' = "aborted"
            /\ UNCHANGED <<page, extracted_text, text_state, text_state_stack, segment,
                           extracted_segments, cur_displacement, shown>>
       ELSE /\ extracted_text' = extracted_text \o
                    Concat([i \in 1..Len(extracted_segments) |->
                               segment_to_str(extracted_segments[i])])
            /\ IF page < Len(pages)
               THEN /\ page' = page + 1
                    /\ phase' = phase
                    /\ SetLocals([InitialLocals EXCEPT !.text_state_stack = text_state_stack])
                    /\ shown' = <<>>
               ELSE /\ phase' = "done"
                    /\ UNCHANGED <<page, text_state, text_state_stack, segment,
                                   extracted_segments, cur_displacement, shown>>
    /\ UNCHANGED <<doc, pages, ignored, nops>>
    /\ UNCHANGED <<filter_vars, parse_vars>>

\* the page's stream ends: its segments are formatted and joined, and the
\* reader goes on to the next page or returns the text
EndPage ==
    /\ phase = "extracting"
    /\ IF \E i \in 1..Len(extracted_segments) : extracted_segments[i].origin_coordinates = None
       THEN /\ phase' = "aborted"
            /\ UNCHANGED <<page, extracted_text, text_state, text_state_stack, segment,
                           extracted_segments, cur_displacement, shown>>
       ELSE /\ extracted_text' = extracted_text \o
                    Concat([i \in 1..Len(extracted_segments) |->
                               segment_to_str(extracted_segments[i])])
            /\ IF page < Len(pages)
               THEN /\ page' = page + 1
                    /\ phase' = phase
                    /\ SetLocals(InitialLocals)
                    /\ shown' = <<>>
               ELSE /\ phase' = "done"
                    /\ UNCHANGED <<page, text_state, text_state_stack, segment,
                                   extracted_segments, cur_displacement, shown>>
    /\ UNCHANGED <<doc, pages, ignored, nops>>
    /\ UNCHANGED <<filter_vars, parse_vars>>

Next ==
    \/ ConstructPage
    \/ ExtractText
    \/ VisitTf
    \/ VisitSave
    \/ VisitRestore
    \/ VisitET
    \/ VisitTd
    \/ VisitTj
    \/ VisitTJ
    \/ VisitOther
    \/ EndPage

Spec == Init /\ [][Next]_vars


(***************************************************************************)
(* Regular expressions of parsing.py.  A pattern is a sequence of atoms;   *)
(* an atom matches between min and max characters that are in (or, when    *)
(* negated, not in) its set.  re.match succeeds when the atoms, in order,  *)
(* can consume a prefix of the line.                                       *)
(***************************************************************************)
Atom(set, negated, min, max) == [set |-> set, negated |-> negated, min |-> min, max |-> max]

Unbounded == -1

\* a literal string: one atom per character
literal(chars) == [i \in 1..Len(chars) |-> Atom({chars[i]}, FALSE, 1, 1)]

Whitespace == {" ", "\t", "\n", "\r", "\f"}
DecimalDigits == Range(Digit)

AtomAccepts(atom, c) == (c \in atom.set) # atom.negated

\* the end of the longest run of accepted characters that starts after
\* position p of line and does not pass position last
RECURSIVE RunEnd(_, _, _, _)
RunEnd(atom, line, p, last) ==
    IF p < last /\ AtomAccepts(atom, line[p + 1]) THEN RunEnd(atom, line, p + 1, last) ELSE p

\* the positions the atom can end at when it starts at position p of line
AtomEnds(atom, line, p) ==
    LET last == IF atom.max = Unbounded \/ p + atom.max > Len(line)
                THEN Len(line) ELSE p + atom.max
    IN  (p + atom.min)..RunEnd(atom, line, p, last)

RECURSIVE MatchEnds(_, _, _)
MatchEnds(pattern, line, positions) ==
    IF pattern = <<>> \/ positions = {} THEN positions
    ELSE MatchEnds(Tail(pattern), line,
                   UNION {AtomEnds(Head(pattern), line, p) : p \in positions})

\* re.match(pattern, line): the match is anchored at the start of the line
re_match(pattern, line) == MatchEnds(pattern, line, {0}) # {}

props_open == literal(<<properties_open>>)
not_props_open == <<Atom({properties_open}, TRUE, 0, Unbounded)>>
props_close == literal(<<properties_close>>)
not_props_close == <<Atom({properties_close}, TRUE, 0, Unbounded)>>
properties_regex == props_open \o not_props_close \o props_close
bold_properties_regex == props_open \o not_props_close \o literal(Bold) \o props_close

\* r"v\. *" + properties_regex
versus_line_regex ==
    literal(<<"v", ".">>) \o <<Atom({" "}, FALSE, 0, Unbounded)>> \o properties_regex

\* r"\d{1,2}/\d{1,2}/\d{4}"
date_regex ==
    <<Atom(DecimalDigits, FALSE, 1, 2)>> \o literal(<<"/">>)
    \o <<Atom(DecimalDigits, FALSE, 1, 2)>> \o literal(<<"/">>)
    \o <<Atom(DecimalDigits, FALSE, 4, 4)>>

\* r"Printed:\s*" + date_regex + not_props_open + properties_regex
printed_date_line_regex ==
    literal(<<"P","r","i","n","t","e","d",":">>) \o <<Atom(Whitespace, FALSE, 0, Unbounded)>>
    \o date_regex \o not_props_open \o properties_regex

ContinuedLiteral == literal(<<"(","C","o","n","t","i","n","u","e","d",")">>)

\* not_props_open + r'\(Continued\)' + bold_properties_regex
continuation_regex == not_props_open \o ContinuedLiteral \o bold_properties_regex

\* not_props_open + r'\(Continued\)' + box_wrap + not_props_open + bold_properties_regex
continuation_textbox_regex ==
    not_props_open \o ContinuedLiteral \o literal(<<box_wrap>>) \o not_props_open
    \o bold_properties_regex

(***************************************************************************)
(* str.split and str.join.                                                 *)
(***************************************************************************)
\* index of the first occurrence of character sep in s, 0 when there is none
RECURSIVE find(_, _, _)
find(s, sep, from) ==
    IF from > Len(s) THEN 0
    ELSE IF s[from] = sep THEN from
    ELSE find(s, sep, from + 1)

\* s.split(sep)
RECURSIVE split(_, _)
split(s, sep) ==
    LET i == find(s, sep, 1)
    IN  IF i = 0 THEN <<s>>
        ELSE <<SubSeq(s, 1, i - 1)>> \o split(SubSeq(s, i + 1, Len(s)), sep)

\* s.split(sep, 1)[1]: what follows the first sep
after_first(s, sep) == SubSeq(s, find(s, sep, 1) + 1, Len(s))

\* sep.join(lines)
RECURSIVE join(_, _)
join(lines, sep) ==
    IF lines = <<>> THEN <<>>
    ELSE IF Len(lines) = 1 THEN lines[1]
    ELSE lines[1] \o <<sep>> \o join(Tail(lines), sep)


(***************************************************************************)
(* Serialized lines the filters are run on.                                *)
(***************************************************************************)
MaxLines == 5

PropsNormal == <<"[","0","7","2",".","0","0",",","7","0","0",".","0","0",",","n","o","r","m","a","l","]">>
PropsBold == <<"[","0","7","2",".","0","0",",","7","0","0",".","0","0",",","b","o","l","d","]">>

BodyLine == <<"B","o","d","y">> \o PropsNormal
PrintedLine == <<"P","r","i","n","t","e","d",":"," ","1","/","1","/","2","0","2","0"," ","P","a","g","e">> \o PropsNormal
VersusLine == <<"v",".">> \o PropsNormal
VersusNameLine == <<"v","."," ","S","m","i","t","h">> \o PropsNormal
ContinuedLine == <<"(","C","o","n","t","i","n","u","e","d",")">> \o PropsBold
ContinuedBoxLine == <<"A"," ","(","C","o","n","t","i","n","u","e","d",")","^","B">> \o PropsBold
ContinuedBoxPrintedLine == <<"(","C","o","n","t","i","n","u","e","d",")","^","P","r","i","n","t","e","d",":","0","1","/","0","2","/","2","0","2","0">> \o PropsBold
PrintedContinuedLine == <<"P","r","i","n","t","e","d",":"," ","1","/","1","/","2","0","2","0"," ","(","C","o","n","t","i","n","u","e","d",")">> \o PropsBold

LinePool(type) ==
    IF type = "docket"
    THEN {BodyLine, PrintedLine, VersusLine, VersusNameLine}
    ELSE {BodyLine, PrintedLine, ContinuedLine, ContinuedBoxLine, ContinuedBoxPrintedLine,
          PrintedContinuedLine}

\* a serialized text: every line ends with the terminator
SerializedText(lines) == Concat([i \in 1..Len(lines) |-> lines[i] \o <<terminator>>])

DocumentTypes == {"docket", "court summary"}

(***************************************************************************)
(* remove_docket_page_breaks and remove_court_summary_page_breaks: one     *)
(* pass of the loop body on input_lines[index] (index counts from 0), as   *)
(* the new [output_lines, in_page_break].                                  *)
(***************************************************************************)
At(lines, i) == lines[i + 1]

docket_loop_body_keeps_resuming_line(lines, out, in_break, i) ==
    LET line == At(lines, i)
    IN  IF in_break
        THEN IF re_match(versus_line_regex, line)
             THEN [output_lines |-> Append(out, line), in_page_break |-> FALSE]
             ELSE [output_lines |-> out, in_page_break |-> in_break]
        ELSE IF re_match(printed_date_line_regex, line)
        THEN [output_lines |-> out, in_page_break |-> TRUE]
        ELSE [output_lines |-> Append(out, line), in_page_break |-> in_break]

docket_loop_body(lines, out, in_break, i) ==
    LET line == At(lines, i)
    IN  IF in_break
        THEN IF re_match(versus_line_regex, At(lines, i - 1))
             THEN [output_lines |-> out, in_page_break |-> FALSE]
             ELSE [output_lines |-> out, in_page_break |-> in_break]
        ELSE IF re_match(printed_date_line_regex, line)
        THEN [output_lines |-> out, in_page_break |-> TRUE]
        ELSE [output_lines |-> Append(out, line), in_page_break |-> in_break]

court_summary_loop_body_keeps_whole_line(lines, out, in_break, i) ==
    LET line == At(lines, i)
    IN  IF in_break
        THEN IF re_match(continuation_regex, At(lines, i - 1))
                /\ ~re_match(continuation_regex, line)
             THEN [output_lines |-> Append(out, line), in_page_break |-> FALSE]
             ELSE [output_lines |-> out, in_page_break |-> in_break]
        ELSE IF re_match(printed_date_line_regex, line)
        THEN [output_lines |-> out, in_page_break |-> TRUE]
        ELSE [output_lines |-> Append(out, line), in_page_break |-> in_break]

court_summary_loop_body_appends_previous_line(lines, out, in_break, i) ==
    LET line == At(lines, i)
    IN  IF in_break
        THEN IF re_match(continuation_regex, At(lines, i - 1))
                /\ ~re_match(continuation_regex, line)
             THEN [output_lines |->
                       IF re_match(continuation_textbox_regex, line)
                       THEN Append(out, after_first(line, box_wrap))
                       ELSE Append(out, line),
                   in_page_break |-> FALSE]
             ELSE [output_lines |-> out, in_page_break |-> in_break]
        ELSE IF re_match(printed_date_line_regex, line)
        THEN [output_lines |-> out, in_page_break |-> TRUE]
        ELSE [output_lines |-> Append(out, At(lines, i - 1)), in_page_break |-> in_break]

court_summary_loop_body(lines, out, in_break, i) ==
    LET line == At(lines, i)
    IN  IF in_break
        THEN IF re_match(continuation_regex, At(lines, i - 1))
                /\ ~re_match(continuation_regex, line)
             THEN [output_lines |->
                       IF re_match(continuation_textbox_regex, line)
                       THEN Append(out, after_first(line, box_wrap))
                       ELSE Append(out, line),
                   in_page_break |-> FALSE]
             ELSE [output_lines |-> out, in_page_break |-> in_break]
        ELSE IF re_match(printed_date_line_regex, line)
        THEN [output_lines |-> out, in_page_break |-> TRUE]
        ELSE [output_lines |-> Append(out, line), in_page_break |-> in_break]

ExtractionIdle ==
    /\ doc = <<>>
    /\ phase = "idle"
    /\ pages = <<>>
    /\ page = 0
    /\ text_state = InitialLocals.text_state
    /\ text_state_stack = InitialLocals.text_state_stack
    /\ segment = InitialLocals.segment
    /\ extracted_segments = InitialLocals.extracted_segments
    /\ cur_displacement = InitialLocals.cur_displacement
    /\ extracted_text = <<>>
    /\ ignored = FALSE
    /\ shown = <<>>
    /\ nops = 0

\* the filter is called: the text is split and the first line kept
InitFilter ==
    /\ ExtractionIdle
    /\ ParseIdle
    /\ document_type \in DocumentTypes
    /\ \E n \in 0..MaxLines : \E lines \in [1..n -> LinePool(document_type)] :
           filter_text = SerializedText(lines)
    /\ input_lines = split(filter_text, terminator)
    /\ output_lines = <<input_lines[1]>>
    /\ in_page_break = FALSE
    /\ index = 1
    /\ filtered_text = <<>>
    /\ fphase = "filtering"

LoopStep(body) ==
    /\ fphase = "filtering"
    /\ index < Len(input_lines)
    /\ output_lines' = body.output_lines
    /\ in_page_break' = body.in_page_break
    /\ index' = index + 1
    /\ UNCHANGED <<document_type, filter_text, input_lines, filtered_text, fphase>>
    /\ UNCHANGED <<extraction_vars, parse_vars>>

DocketLoopStep ==
    /\ document_type = "docket"
    /\ LoopStep(docket_loop_body(input_lines, output_lines, in_page_break, index))

CourtSummaryLoopStep ==
    /\ document_type = "court summary"
    /\ LoopStep(court_summary_loop_body(input_lines, output_lines, in_page_break, index))

\* the loop is over: the kept lines are joined and returned
FilterReturn ==
    /\ fphase = "filtering"
    /\ index = Len(input_lines)
    /\ filtered_text' = join(output_lines, terminator) \o <<terminator>>
    /\ fphase' = "returned"
    /\ UNCHANGED <<document_type, filter_text, input_lines, output_lines, in_page_break, index>>
    /\ UNCHANGED <<extraction_vars, parse_vars>>

FilterNext ==
    \/ DocketLoopStep
    \/ CourtSummaryLoopStep
    \/ FilterReturn

FilterSpec == InitFilter /\ [][FilterNext]_vars

(***************************************************************************)
(* get_document_type and remove_page_breaks: the filter chosen by the type *)
(* the text is detected to have (specification RemoveSpec).                *)
(***************************************************************************)
MaxTypedLines == 3

DocketTitleLine == <<"D","O","C","K","E","T">> \o PropsBold
CourtSummaryTitleLine == <<"C","o","u","r","t"," ","S","u","m","m","a","r","y">> \o PropsBold
CourtSummaryDocketLine ==
    <<"C","o","u","r","t"," ","S","u","m","m","a","r","y"," ","D","o","c","k","e","t">> \o PropsBold
PrintedDocketLine ==
    <<"P","r","i","n","t","e","d",":"," ","1","/","1","/","2","0","2","0"," ","D","o","c","k","e","t">>
    \o PropsNormal

TypedLinePool ==
    {BodyLine, PrintedLine, VersusLine, ContinuedLine, DocketTitleLine, CourtSummaryTitleLine,
     CourtSummaryDocketLine, PrintedDocketLine}

get_document_type_third_line(text) ==
    LET lines == split(text, "\n")
    IN  IF Len(lines) < 3 THEN [raised |-> "IndexError", type |-> "none"]
        ELSE LET line_2 == lower(lines[3])
             IN  IF Contains(<<"d","o","c","k","e","t">>, line_2)
                 THEN [raised |-> "no", type |-> "docket"]
                 ELSE IF Contains(<<"c","o","u","r","t"," ","s","u","m","m","a","r","y">>, line_2)
                 THEN [raised |-> "no", type |-> "court summary"]
                 ELSE [raised |-> "ParseError", type |-> "none"]

\* get_document_type(text): the type, or the exception raised
get_document_type(text) ==
    LET lines == split(text, "\n")
    IN  IF Len(lines) < 2 THEN [raised |-> "IndexError", type |-> "none"]
        ELSE LET line_2 == lower(lines[2])
             IN  IF Contains(<<"d","o","c","k","e","t">>, line_2)
                 THEN [raised |-> "no", type |-> "docket"]
                 ELSE IF Contains(<<"c","o","u","r","t"," ","s","u","m","m","a","r","y">>, line_2)
                 THEN [raised |-> "no", type |-> "court summary"]
                 ELSE [raised |-> "ParseError", type |-> "none"]

\* the loop of a filter from index i on: the final output_lines
RECURSIVE filter_loop(_, _, _, _, _)
filter_loop(type, lines, out, in_break, i) ==
    IF i >= Len(lines) THEN out
    ELSE LET body == IF type = "docket"
                     THEN docket_loop_body(lines, out, in_break, i)
                     ELSE court_summary_loop_body(lines, out, in_break, i)
         IN  filter_loop(type, lines, body.output_lines, body.in_page_break, i + 1)

remove_docket_page_breaks(text) ==
    LET lines == split(text, terminator)
    IN  join(filter_loop("docket", lines, <<lines[1]>>, FALSE, 1), terminator) \o <<terminator>>

remove_court_summary_page_breaks(text) ==
    LET lines == split(text, terminator)
    IN  join(filter_loop("court summary", lines, <<lines[1]>>, FALSE, 1), terminator)
        \o <<terminator>>

\* remove_page_breaks(text): the filtered text, or the exception raised
remove_page_breaks(text) ==
    LET detected == get_document_type(text)
    IN  IF detected.raised # "no" THEN [raised |-> detected.raised, text |-> <<>>]
        ELSE IF detected.type = "docket"
        THEN [raised |-> "no", text |-> remove_docket_page_breaks(text)]
        ELSE [raised |-> "no", text |-> remove_court_summary_page_breaks(text)]

\* remove_page_breaks is about to be called with a serialized text
InitRemove ==
    /\ ExtractionIdle
    /\ ParseIdle
    /\ \E n \in 0..MaxTypedLines : \E lines \in [1..n -> TypedLinePool] :
           filter_text = SerializedText(lines)
    /\ document_type = "none"
    /\ input_lines = <<>>
    /\ output_lines = <<>>
    /\ in_page_break = FALSE
    /\ index = 0
    /\ filtered_text = <<>>
    /\ fphase = "called"

\* remove_page_breaks detects the type and enters the filter of that type,
\* which splits the text and keeps the first line
CallRemovePageBreaks ==
    /\ fphase = "called"
    /\ LET detected == get_document_type(filter_text)
       IN  IF detected.raised # "no"
           THEN /\ fphase' = detected.raised
                /\ UNCHANGED <<document_type, input_lines, output_lines, in_page_break, index>>
           ELSE /\ fphase' = "filtering"
                /\ document_type' = detected.type
                /\ input_lines' = split(filter_text, terminator)
                /\ output_lines' = <<split(filter_text, terminator)[1]>>
                /\ in_page_break' = FALSE
                /\ index' = 1
    /\ UNCHANGED <<filter_text, filtered_text>>
    /\ UNCHANGED <<extraction_vars, parse_vars>>

RemoveNext ==
    \/ CallRemovePageBreaks
    \/ DocketLoopStep
    \/ CourtSummaryLoopStep
    \/ FilterReturn

RemoveSpec == InitRemove /\ [][RemoveNext]_vars

(***************************************************************************)
(* parse_extracted_text and the money visitor (specification ParseSpec).   *)
(* The grammar is read from a file and applied by the parsing library:     *)
(* grammar.parse either raises ParseError or returns a tree, of which the  *)
(* model keeps the text of the money nodes, in the order they are visited. *)
(* A float is its value in hundredths; the literals have at most two       *)
(* decimals.                                                               *)
(***************************************************************************)
MaxMoneyNodes == 2

MoneyLiterals ==
    { <<"$","1",",","2","3","4",".","5","6">>,
      <<"(","$","5","0","0",".","0","0",")">>,
      <<" ","$","5"," ">>,
      <<"5",".","0","0">>,
      <<"-","$","5",".","0","0">> }

Trees == UNION {[1..n -> MoneyLiterals] : n \in 0..MaxMoneyNodes}

ParseTexts ==
    { <<>>,
      SerializedText(<<BodyLine, BodyLine>>),
      SerializedText(<<BodyLine, DocketTitleLine, PrintedLine, VersusLine, BodyLine>>),
      SerializedText(<<BodyLine, CourtSummaryTitleLine, PrintedLine, ContinuedLine, BodyLine>>) }

\* str.strip()
strip(str) ==
    LET kept == {i \in 1..Len(str) : str[i] \notin Whitespace}
    IN  IF kept = {} THEN <<>>
        ELSE SubSeq(str, CHOOSE i \in kept : \A j \in kept : i <= j,
                         CHOOSE i \in kept : \A j \in kept : i >= j)

\* str.replace(old, ''), old one character
remove(str, old) == SelectSeq(str, LAMBDA c : c # old)

\* int(str) of a string of decimal digits ('' counts 0)
RECURSIVE int(_)
int(str) ==
    IF str = <<>> THEN 0
    ELSE 10 * int(SubSeq(str, 1, Len(str) - 1))
         + (CHOOSE k \in 0..9 : Digit[k + 1] = str[Len(str)])

\* float(str) for an unsigned decimal literal, in hundredths; ValueError otherwise
float(str) ==
    LET dot == find(str, ".", 1)
        whole == IF dot = 0 THEN str ELSE SubSeq(str, 1, dot - 1)
        fraction == IF dot = 0 THEN <<>> ELSE SubSeq(str, dot + 1, Len(str))
    IN  IF \/ whole \o fraction = <<>>
           \/ Range(whole \o fraction) \ DecimalDigits # {}
           \/ Len(fraction) > 2
        THEN [raised |-> "ValueError", value |-> 0]
        ELSE [raised |-> "no",
              value |-> 100 * int(whole)
                        + (IF Len(fraction) = 1 THEN 10 ELSE 1) * int(fraction)]



visit_money_without_minus(text) ==
    LET money == remove(strip(text), ",")
    IN  IF money = <<>> THEN [raised |-> "IndexError", money_float |-> 0]
        ELSE IF money[1] = "$"
        THEN LET amount == float(SubSeq(money, 2, Len(money)))
             IN  [raised |-> amount.raised, money_float |-> amount.value]
        ELSE IF money[1] = "("
        THEN LET amount == float(SubSeq(money, 3, Len(money) - 1))
             IN  [raised |-> amount.raised, money_float |-> amount.value]
        ELSE [raised |-> "ParseError", money_float |-> 0]

\* DocketVisitor.add_money_visitor.visit_money on a node with this text:
\* the money_float of the dictionary returned, or the exception raised
visit_money(text) ==
    LET money == remove(strip(text), ",")
    IN  IF money = <<>> THEN [raised |-> "IndexError", money_float |-> 0]
        ELSE IF money[1] = "$"
        THEN LET amount == float(SubSeq(money, 2, Len(money)))
             IN  [raised |-> amount.raised, money_float |-> amount.value]
        ELSE IF money[1] = "("
        THEN LET amount == float(SubSeq(money, 3, Len(money) - 1))
             IN  [raised |-> amount.raised, money_float |-> -amount.value]
        ELSE [raised |-> "ParseError", money_float |-> 0]

\* visitor.visit(tree): the money nodes are reduced in order; an exception
\* raised by a visit method is wrapped in a VisitationError
RECURSIVE visit(_)
visit(nodes) ==
    IF nodes = <<>> THEN [raised |-> "no", parsed |-> <<>>]
    ELSE LET first == visit_money(Head(nodes))
             rest == visit(Tail(nodes))
         IN  IF first.raised # "no" \/ rest.raised # "no"
             THEN [raised |-> "VisitationError", parsed |-> <<>>]
             ELSE [raised |-> "no", parsed |-> <<first.money_float>> \o rest.parsed]

\* parse_extracted_text is about to be called with a text
InitParse ==
    /\ ExtractionIdle
    /\ filter_text \in ParseTexts
    /\ document_type = "none"
    /\ filtered_text = <<>>
    /\ input_lines = <<>>
    /\ output_lines = <<>>
    /\ in_page_break = FALSE
    /\ index = 0
    /\ fphase = "idle"
    /\ pphase = "called"
    /\ grammar = "none"
    /\ visitor = "none"
    /\ tree = <<>>
    /\ parsed = <<>>
    /\ visited_children = <<>>
    /\ flattened = <<>>

\* DocumentType.grammar_path: the file name of the type's grammar
grammar_path(type) ==
    CASE type = "court summary" -> "court_summary_grammar.ppeg"
      [] type = "docket" -> "docket_grammar.ppeg"

\* DocumentType.visitor: the class of the type's visitor
document_type_visitor(type) ==
    CASE type = "court summary" -> "CourtSummaryVisitor"
      [] type = "docket" -> "DocketVisitor"

DetectTypeFilteringAlways ==
    /\ pphase = "called"
    /\ LET detected == get_document_type(filter_text)
       IN  IF detected.raised # "no"
           THEN /\ pphase' = detected.raised
                /\ UNCHANGED <<document_type, filtered_text, grammar>>
           ELSE /\ pphase' = "detected"
                /\ document_type' = detected.type
                /\ grammar' = grammar_path(detected.type)
                /\ filtered_text' = remove_page_breaks(filter_text).text
    /\ UNCHANGED <<filter_text, input_lines, output_lines, in_page_break, index, fphase>>
    /\ UNCHANGED <<visitor, tree, parsed, visited_children, flattened>>
    /\ UNCHANGED extraction_vars

\* the type is detected, its grammar is read and the page breaks of a court
\* summary are removed
DetectType ==
    /\ pphase = "called"
    /\ LET detected == get_document_type(filter_text)
       IN  IF detected.raised # "no"
           THEN /\ pphase' = detected.raised
                /\ UNCHANGED <<document_type, filtered_text, grammar>>
           ELSE /\ pphase' = "detected"
                /\ document_type' = detected.type
                /\ grammar' = grammar_path(detected.type)
                /\ filtered_text' = IF detected.type = "court summary"
                                    THEN remove_page_breaks(filter_text).text
                                    ELSE filter_text
    /\ UNCHANGED <<filter_text, input_lines, output_lines, in_page_break, index, fphase>>
    /\ UNCHANGED <<visitor, tree, parsed, visited_children, flattened>>
    /\ UNCHANGED extraction_vars

\* grammar.parse(text) raises ParseError, which is raised again
GrammarParseFails ==
    /\ pphase = "detected"
    /\ pphase' = "ParseError"
    /\ UNCHANGED <<grammar, visitor, tree, parsed, visited_children, flattened>>
    /\ UNCHANGED <<extraction_vars, filter_vars>>

\* grammar.parse(text) returns a tree
GrammarParse ==
    /\ pphase = "detected"
    /\ tree' \in Trees
    /\ pphase' = "parsed"
    /\ UNCHANGED <<grammar, visitor, parsed, visited_children, flattened>>
    /\ UNCHANGED <<extraction_vars, filter_vars>>

\* visitor = document_type.visitor() and parsed = {}, then visitor.visit(tree)
\* inside try/except VisitationError, then return parsed
VisitTree ==
    /\ pphase = "parsed"
    /\ visitor' = document_type_visitor(document_type)
    /\ LET visited == visit(tree)
       IN  parsed' = IF visited.raised = "VisitationError" THEN <<>> ELSE visited.parsed
    /\ pphase' = "returned"
    /\ UNCHANGED <<grammar, tree, visited_children, flattened>>
    /\ UNCHANGED <<extraction_vars, filter_vars>>

ParseNext ==
    \/ DetectType
    \/ GrammarParseFails
    \/ GrammarParse
    \/ VisitTree

ParseSpec == InitParse /\ [][ParseNext]_vars


(***************************************************************************)
(* flatten (specification FlattenSpec).  A Python value is a record with   *)
(* its type as kind: an int, a str and a raw Node have a value, a list has *)
(* items.                                                                  *)
(***************************************************************************)
MaxChildren == 2

Leaf(kind, value) == [kind |-> kind, value |-> value, items |-> <<>>]
List(items) == [kind |-> "list", value |-> "", items |-> items]

Leaves == {Leaf("int", "1"), Leaf("str", "hello"), Leaf("Node", "")}

ListsOf(things) == UNION {[1..n -> things] : n \in 0..MaxChildren}

\* lists nested up to three deep
NestedLists ==
    LET flat == ListsOf(Leaves)
        nested == ListsOf(Leaves \cup {List(items) : items \in flat})
    IN  nested \cup {<<List(items)>> : items \in nested}

\* flatten.can_flatten(thing)
can_flatten(thing) ==
    IF thing.kind \in {"str", "dict", "bytes"} THEN FALSE
    ELSE thing.kind \in {"list", "Node"}

RECURSIVE flatten_keeping_nodes(_)
flatten_keeping_nodes(children) ==
    IF children = <<>> THEN <<>>
    ELSE LET item == Head(children)
         IN  (IF ~can_flatten(item) \/ item.kind = "Node" THEN <<item>>
              ELSE flatten_keeping_nodes(item.items))
             \o flatten_keeping_nodes(Tail(children))

\* list(flatten(visited_children))
RECURSIVE flatten(_)
flatten(children) ==
    IF children = <<>> THEN <<>>
    ELSE LET item == Head(children)
         IN  (IF item.kind = "Node" THEN <<>>
              ELSE IF ~can_flatten(item) THEN <<item>>
              ELSE flatten(item.items))
             \o flatten(Tail(children))

InitFlatten ==
    /\ ExtractionIdle
    /\ FilterIdle
    /\ pphase = "called"
    /\ grammar = "none"
    /\ visitor = "none"
    /\ tree = <<>>
    /\ parsed = <<>>
    /\ visited_children \in NestedLists
    /\ flattened = <<>>

\* flatten(visited_children) is consumed to its end
Flatten ==
    /\ pphase = "called"
    /\ flattened' = flatten(visited_children)
    /\ pphase' = "returned"
    /\ UNCHANGED <<grammar, visitor, tree, parsed, visited_children>>
    /\ UNCHANGED <<extraction_vars, filter_vars>>

FlattenSpec == InitFlatten /\ [][Flatten]_vars


(***************************************************************************)
(* The string leaf visitors (specification LeafSpec): the visit_leaf that  *)
(* add_leaf_visitor builds for a leaf name, called on a node of that name  *)
(* with a text.  The node is held in tree, the dictionary returned in      *)
(* parsed.                                                                 *)
(***************************************************************************)
MaxLeafLen == 4

LeafNames == {"docket_number", "judge"}

LeafTexts == UNION {[1..n -> {"a", " ", box_wrap}] : n \in 0..MaxLeafLen}

\* CourtSummaryVisitor.add_leaf_visitor.visit_leaf
CourtSummaryVisitor_visit_leaf(leaf_name, node) ==
    LET text == strip(node.text)
    IN  (leaf_name :> remove(text, box_wrap))

\* DocketVisitor.add_leaf_visitor.visit_leaf
DocketVisitor_visit_leaf(leaf_name, node) == (leaf_name :> strip(node.text))

InitLeaf ==
    /\ ExtractionIdle
    /\ FilterIdle
    /\ pphase = "called"
    /\ grammar = "none"
    /\ visitor \in {"CourtSummaryVisitor", "DocketVisitor"}
    /\ tree \in [expr_name : LeafNames, text : LeafTexts]
    /\ parsed = <<>>
    /\ visited_children = <<>>
    /\ flattened = <<>>

\* the visitor reaches the node and calls its visit_<expr_name>
VisitLeaf ==
    /\ pphase = "called"
    /\ parsed' = IF visitor = "CourtSummaryVisitor"
                 THEN CourtSummaryVisitor_visit_leaf(tree.expr_name, tree)
                 ELSE DocketVisitor_visit_leaf(tree.expr_name, tree)
    /\ pphase' = "returned"
    /\ UNCHANGED <<grammar, visitor, tree, visited_children, flattened>>
    /\ UNCHANGED <<extraction_vars, filter_vars>>

LeafSpec == InitLeaf /\ [][VisitLeaf]_vars

(***************************************************************************)
(* CourtSummaryVisitor.visit_county_section (specification CountySpec).    *)
(* A dict is a record of kind "dict" whose items are its entries, each a   *)
(* record with the key as kind and the string as value.  The dicts of the  *)
(* visited children are changed in place, so what the method returns is    *)
(* observed through flatten: flattened holds the dicts of the returned     *)
(* list in order.                                                          *)
(***************************************************************************)
MaxSectionChildren == 3

Dict(entries) == [kind |-> "dict", value |-> "", items |-> entries]

\* what the children of a county section reduce to: the dict of a county
\* heading, the dict of a docket section, a raw Node, and lists of them
SectionChildren ==
    LET headings == {Dict(<<Leaf("county", name)>>) : name \in {"Adams", "Bucks"}}
        record == Dict(<<Leaf("docket_number", "CP-1"), Leaf("otn", "T 1")>>)
    IN  headings \cup {record, Leaf("Node", "")}
        \cup {List(<<record>>), List(<<Dict(<<Leaf("county", "Bucks")>>), record>>)}

CountySections == UNION {[1..n -> SectionChildren] : n \in 0..MaxSectionChildren}

\* key in dict
HasKey(dict, key) == \E i \in 1..Len(dict.items) : dict.items[i].kind = key

\* dict[key]
Item(dict, key) == dict.items[CHOOSE i \in 1..Len(dict.items) : dict.items[i].kind = key].value

\* dict after dict.pop(key)
Popped(dict, key) == Dict(SelectSeq(dict.items, LAMBDA entry : entry.kind # key))

\* dict after dict[key] = value
WithItem(dict, key, value) ==
    IF HasKey(dict, key)
    THEN Dict([i \in 1..Len(dict.items) |->
                 IF dict.items[i].kind = key THEN Leaf(key, value) ELSE dict.items[i]])
    ELSE Dict(Append(dict.items, Leaf(key, value)))

RECURSIVE county_loop_stamping_headings(_, _)
county_loop_stamping_headings(children, county_name) ==
    IF children = <<>> THEN [raised |-> "no", children |-> <<>>]
    ELSE LET visited_child == Head(children)
             name == IF HasKey(visited_child, "county") THEN Item(visited_child, "county")
                     ELSE county_name
         IN  IF HasKey(visited_child, "docket_number") /\ name = ""
             THEN [raised |-> "RuntimeError", children |-> <<>>]
             ELSE LET rest == county_loop_stamping_headings(Tail(children), name)
                      child == IF HasKey(visited_child, "docket_number")
                               THEN WithItem(visited_child, "county", name)
                               ELSE visited_child
                  IN  [raised |-> rest.raised,
                       children |-> IF rest.raised # "no" THEN <<>>
                                    ELSE <<child>> \o rest.children]

\* the loop of visit_county_section over the rest of flatten(visited_children)
RECURSIVE county_loop(_, _)
county_loop(children, county_name) ==
    IF children = <<>> THEN [raised |-> "no", children |-> <<>>]
    ELSE LET visited_child == Head(children)
             name == IF HasKey(visited_child, "county") THEN Item(visited_child, "county")
                     ELSE county_name
             popped == IF HasKey(visited_child, "county") THEN Popped(visited_child, "county")
                       ELSE visited_child
         IN  IF HasKey(popped, "docket_number") /\ name = ""
             THEN [raised |-> "RuntimeError", children |-> <<>>]
             ELSE LET rest == county_loop(Tail(children), name)
                      child == IF HasKey(popped, "docket_number")
                               THEN WithItem(popped, "county", name)
                               ELSE popped
                  IN  [raised |-> rest.raised,
                       children |-> IF rest.raised # "no" THEN <<>>
                                    ELSE <<child>> \o rest.children]

\* visit_county_section(node, visited_children): the dicts of the list it
\* returns, or the exception raised.  county_name starts as None, which the
\* loop only tests with "not county_name", as it would the empty string.
visit_county_section(children) == county_loop(flatten(children), "")

InitCounty ==
    /\ ExtractionIdle
    /\ FilterIdle
    /\ pphase = "called"
    /\ grammar = "none"
    /\ visitor = "CourtSummaryVisitor"
    /\ tree = <<>>
    /\ parsed = <<>>
    /\ visited_children \in CountySections
    /\ flattened = <<>>

VisitCountySection ==
    /\ pphase = "called"
    /\ LET visited == visit_county_section(visited_children)
       IN  /\ pphase' = IF visited.raised # "no" THEN visited.raised ELSE "returned"
           /\ flattened' = visited.children
    /\ UNCHANGED <<grammar, visitor, tree, parsed, visited_children>>
    /\ UNCHANGED <<extraction_vars, filter_vars>>

CountySpec == InitCounty /\ [][VisitCountySection]_vars

(***************************************************************************)
(* Properties of the extraction (specification Spec).                      *)
(***************************************************************************)
\* the pages of the document one of whose fonts decodes a character id to
\* one of the six reserved characters
PagesWithReservedCharacter ==
    { i \in 1..Len(doc) :
        \E f \in DOMAIN doc[i] : \E cid \in DOMAIN doc[i][f].unicode_map :
            doc[i][f].unicode_map[cid] \in {"\n", "_", "|", "^", "[", "]"} }

\* C1: when some font of some page decodes a character id to a reserved
\* character, construction never completes: it is still building pages
\* before the first such page, or it has failed; no operator is interpreted,
\* no segment is emitted and no text is produced.
C1_ReservedCharacterFailsConstruction ==
    PagesWithReservedCharacter # {} =>
        /\ phase \in {"constructing", "failed"}
        /\ \A i \in PagesWithReservedCharacter : Len(pages) < i
        /\ nops = 0
        /\ extracted_segments = <<>>
        /\ extracted_text = <<>>

C1_Witness ==
    /\ phase = "failed"
    /\ Len(doc) = 2
    /\ Len(pages) = 1
    /\ doc[2]["F2"].unicode_map[1] = "^"

Count(c, s) == Cardinality({i \in 1..Len(s) : s[i] = c})

SerializedLines == split(extracted_text, terminator)

AllSegments == extracted_segments \o <<segment>>

\* C2: every line of the serialized text holds properties_open exactly
\* once, with no properties_close before it, and the content of every
\* segment (emitted or working) holds no properties_open, properties_close
\* or terminator.
C2_PropertiesOpenOncePerLine ==
    /\ \A i \in 1..(Len(SerializedLines) - 1) :
          LET line == SerializedLines[i]
              open == find(line, properties_open, 1)
          IN  /\ Count(properties_open, line) = 1
              /\ properties_close \notin Range(SubSeq(line, 1, open))
    /\ \A i \in 1..Len(AllSegments) :
          Range(AllSegments[i].content)
              \cap {properties_open, properties_close, terminator} = {}

C2_Witness ==
    /\ phase = "done"
    /\ Len(SerializedLines) >= 2
    /\ tab \in Range(extracted_text)
    /\ box_wrap \in Range(extracted_text)

\* C3: the serialized text, split on the terminator, ends with an empty
\* element, and a one-page document's text has one line per emitted segment.
C3_TextEndsWithTerminator ==
    phase \in {"extracting", "done"} =>
        /\ SerializedLines[Len(SerializedLines)] = <<>>
        /\ (phase = "done" /\ Len(pages) = 1) =>
               Len(SerializedLines) = Len(extracted_segments) + 1

C3_Witness ==
    /\ phase = "done"
    /\ Len(pages) = 2
    /\ Len(SerializedLines) >= 3


\* three integer digits, a point, two decimals, twice, then the font class
\* and properties_close
FixedWidthProperties(font_class) ==
    <<Atom(DecimalDigits, FALSE, 3, 3)>> \o literal(<<".">>)
    \o <<Atom(DecimalDigits, FALSE, 2, 2)>> \o literal(<<",">>)
    \o <<Atom(DecimalDigits, FALSE, 3, 3)>> \o literal(<<".">>)
    \o <<Atom(DecimalDigits, FALSE, 2, 2)>> \o literal(<<",">>)
    \o literal(font_class) \o literal(<<properties_close>>)

\* C4: in every serialized line, what follows properties_open is exactly
\* ddd.dd,ddd.dd,<normal|bold> and properties_close, which ends the line.
C4_FixedWidthProperties ==
    \A i \in 1..(Len(SerializedLines) - 1) :
        LET line == SerializedLines[i]
            open == find(line, properties_open, 1)
            properties == SubSeq(line, open + 1, Len(line))
        IN  /\ open > 0
            /\ \E font_class \in {Normal, Bold} :
                   Len(properties) \in MatchEnds(FixedWidthProperties(font_class), properties, {0})

StripMarkers(content) ==
    SelectSeq(content, LAMBDA c : c \notin {tab, comes_before, box_wrap})

\* C5: the contents of the emitted segments, in order, followed by the
\* working segment's content, with the markers removed, are exactly the text
\* decoded by the show operators processed so far on the page, in order.
C5_ShownTextInSourceOrder ==
    phase \in {"extracting", "aborted", "done"} =>
        StripMarkers(Concat([i \in 1..Len(AllSegments) |-> AllSegments[i].content])) = shown

C5_Witness ==
    /\ phase = "extracting"
    /\ Len(extracted_segments) >= 1
    /\ segment.content # <<>>
    /\ Len(shown) >= 3
    /\ \E i \in 1..Len(extracted_segments) :
           Range(extracted_segments[i].content) \cap {tab, comes_before, box_wrap} # {}

\* a step in which the visitor handled one operation
VisitStep == phase = "extracting" /\ nops' = nops + 1

\* C6: a reposition with dy < 0 and |dx + x_carry| < x_tolerance, whatever
\* the size of dy, appends exactly one box_wrap to the working content, sets
\* x_carry to 0, adds dy to y_carry and emits no segment; nothing else of the
\* interpreter's state changes except the displacement, which is reset.
C6_BoxWrapCase ==
    [][ \A args \in TdArgs :
          ( /\ args[2] < 0
            /\ phase = "extracting"
            /\ Abs(args[1] + segment.x_translation_from_origin) < x_tolerance
            /\ Visit("Td", args, DefaultPlacement) )
          => ( /\ segment'.content = Append(segment.content, box_wrap)
               /\ segment'.x_translation_from_origin = 0
               /\ segment'.y_translation_from_origin =
                      segment.y_translation_from_origin + args[2]
               /\ segment'.origin_coordinates = segment.origin_coordinates
               /\ extracted_segments' = extracted_segments
               /\ cur_displacement' = 0
               /\ phase' = "extracting"
               /\ UNCHANGED <<text_state, text_state_stack>> ) ]_vars

C6_Witness ==
    /\ phase = "extracting"
    /\ nops = 3
    /\ segment.content = <<"a", box_wrap>>
    /\ segment.x_translation_from_origin = 0
    /\ segment.y_translation_from_origin = -12000
    /\ extracted_segments = <<>>

\* C7: an operation whose operator is none of Tf, q, Q, ET, Td, Tj, TJ never
\* aborts the extraction and leaves the TextState, the state stack, the
\* working segment, the displacement and the emitted segments unchanged.
C7_OtherOperatorsIgnored ==
    [][ (VisitStep /\ ignored')
        => ( /\ phase' = "extracting"
             /\ UNCHANGED <<text_state, text_state_stack, segment, extracted_segments,
                            cur_displacement, extracted_text, shown>> ) ]_vars

C7_Witness ==
    /\ phase = "extracting"
    /\ ignored
    /\ segment.content # <<>>
    /\ segment.origin_coordinates # None
    /\ cur_displacement # 0
    /\ text_state_stack # <<>>


SaveStep == Visit("q", <<>>, DefaultPlacement)
RestoreStep == Visit("Q", <<>>, DefaultPlacement)
FontStep(args) == Visit("Tf", args, DefaultPlacement)

\* a step that starts the extraction of a page
PageStart == phase' = "extracting" /\ page' # page

\* C18: every page starts with an empty state stack; a save-state pushes
\* the current TextState and leaves it current; a restore-state that does
\* not abort pops the last TextState pushed and makes it current; no other
\* operator changes the stack.
C18_StateStackIsLifo ==
    [][ /\ PageStart => text_state_stack' = <<>>
        /\ (VisitStep /\ phase' = "extracting")
             => IF SaveStep
                THEN /\ text_state_stack' = Append(text_state_stack, text_state)
                     /\ text_state' = text_state
                ELSE IF RestoreStep
                THEN /\ text_state_stack # <<>>
                     /\ text_state' = text_state_stack[Len(text_state_stack)]
                     /\ text_state_stack' = SubSeq(text_state_stack, 1, Len(text_state_stack) - 1)
                ELSE text_state_stack' = text_state_stack ]_vars

C18_Witness ==
    /\ phase = "extracting"
    /\ text_state = InitialLocals.text_state
    /\ text_state_stack = <<>>
    /\ Len(extracted_segments) = 1
    /\ nops = 4

\* C19 as stated: every page starts with the initial TextState, a
\* font-select makes its operands the TextState and no other operator
\* changes the TextState.
C19_TextStateIsLastFontSelect ==
    [][ /\ PageStart => text_state' = InitialLocals.text_state
        /\ (VisitStep /\ phase' = "extracting")
             => /\ \A args \in TfArgs :
                      FontStep(args) => text_state' = [font_name |-> args[1], size |-> args[2]]
                /\ (\A args \in TfArgs : ~FontStep(args)) => text_state' = text_state ]_vars

\* C19 amended: every page starts with the initial TextState, a font-select
\* makes its operands the TextState, a restore-state makes the TextState
\* it pops the TextState, and no other operator changes the TextState.
C19_TextStateIsLastFontSelectOrRestore ==
    [][ /\ PageStart => text_state' = InitialLocals.text_state
        /\ (VisitStep /\ phase' = "extracting")
             => /\ \A args \in TfArgs :
                      FontStep(args) => text_state' = [font_name |-> args[1], size |-> args[2]]
                /\ RestoreStep => text_state' = text_state_stack[Len(text_state_stack)]
                /\ ((\A args \in TfArgs : ~FontStep(args)) /\ ~RestoreStep)
                      => text_state' = text_state ]_vars

C19_Witness ==
    /\ phase = "extracting"
    /\ text_state = InitialLocals.text_state
    /\ text_state_stack = <<InitialLocals.text_state>>
    /\ Len(extracted_segments) = 1
    /\ extracted_segments[1].font_name = Bold

\* the reposition matches neither case 1 nor case 2 of the Td chain
NeitherBoxWrapNorBoxEnd(args) ==
    /\ ~(args[2] < 0 /\ Abs(args[1] + segment.x_translation_from_origin) < x_tolerance)
    /\ ~(args[2] > 0 /\ Abs(args[2] + segment.y_translation_from_origin) < y_tolerance)

\* a reposition of a working segment with content that matches neither case
\* 1 nor case 2 and does not abort
PlainReposition(args) ==
    /\ phase = "extracting"
    /\ segment.content # <<>>
    /\ NeitherBoxWrapNorBoxEnd(args)
    /\ Visit("Td", args, DefaultPlacement)
    /\ phase' = "extracting"

\* the step emitted the working segment and started a new one
Finalized ==
    /\ Len(extracted_segments') = Len(extracted_segments) + 1
    /\ SubSeq(extracted_segments', 1, Len(extracted_segments)) = extracted_segments
    /\ segment' = TextSegment

\* C20 as stated: such a reposition finalizes the working segment if and
\* only if |dy| is greater than the vertical tolerance.
C20_FinalizedIffExceeds ==
    [][ \A args \in TdArgs :
          PlainReposition(args) => (Finalized <=> Abs(args[2]) > y_tolerance) ]_vars

\* C20 amended: such a reposition finalizes the working segment if and only
\* if |dy| is at least the vertical tolerance; otherwise it emits nothing
\* and takes the same-line cases: dx < 0 appends comes_before; dx > 0 appends
\* a tab when dx exceeds the displacement by more than x_tolerance times the
\* font size, changes nothing of the segment when dx is more than 0.1 short
\* of the displacement, and else adds dx to x_carry; dx = 0 leaves the
\* segment as it is.
C20_FinalizedIffAtLeast ==
    [][ \A args \in TdArgs :
          PlainReposition(args)
          => IF Abs(args[2]) >= y_tolerance THEN Finalized
             ELSE /\ extracted_segments' = extracted_segments
                  /\ segment' =
                        IF args[1] < 0
                        THEN [segment EXCEPT !.content = Append(@, comes_before)]
                        ELSE IF args[1] = 0 THEN segment
                        ELSE IF args[1] - cur_displacement > x_tolerance * text_state.size
                        THEN [segment EXCEPT !.content = Append(@, tab)]
                        ELSE IF args[1] - cur_displacement < -100 THEN segment
                        ELSE [segment EXCEPT !.x_translation_from_origin = @ + args[1]] ]_vars

C20_Witness ==
    /\ phase = "extracting"
    /\ nops = 3
    /\ Len(extracted_segments) = 1
    /\ extracted_segments[1].content = <<"a">>
    /\ segment = TextSegment
    /\ text_state_stack = <<>>
    /\ text_state = TextState("F1", 10)
    /\ ~ignored

\* a reposition with dy > 0 and |dy + y_carry| < y_tolerance (case 1 needs
\* dy < 0, so it does not match)
BoxEndReposition(args) ==
    /\ args[2] > 0
    /\ phase = "extracting"
    /\ Abs(args[2] + segment.y_translation_from_origin) < y_tolerance
    /\ Visit("Td", args, DefaultPlacement)

\* C21: a reposition with dy > 0 and |dy + y_carry| < y_tolerance sets
\* x_carry and y_carry to 0, appends exactly one marker to the working
\* content (comes_before when dx < 0, tab otherwise, dx = 0 included), keeps
\* the origin and emits no segment; the extraction goes on.
C21_BoxEndCase ==
    [][ \A args \in TdArgs :
          BoxEndReposition(args)
          => ( /\ segment' = [segment EXCEPT
                                !.x_translation_from_origin = 0,
                                !.y_translation_from_origin = 0,
                                !.content = Append(@, IF args[1] < 0 THEN comes_before
                                                      ELSE tab)]
               /\ extracted_segments' = extracted_segments
               /\ phase' = "extracting" ) ]_vars

C21_Witness ==
    /\ phase = "extracting"
    /\ nops = 4
    /\ segment.content = <<"a", box_wrap, comes_before>>
    /\ segment.x_translation_from_origin = 0
    /\ segment.y_translation_from_origin = 0
    /\ segment.origin_coordinates # None
    /\ extracted_segments = <<>>

\* a reposition that matches none of the cases 1 to 3 of the Td chain
SameLineReposition(args) ==
    /\ phase = "extracting"
    /\ Abs(args[2]) < y_tolerance
    /\ NeitherBoxWrapNorBoxEnd(args)
    /\ Visit("Td", args, DefaultPlacement)

\* C22: a reposition that matches none of the cases 1 to 3 and has dx < 0
\* appends exactly one comes_before to a non-empty working content and
\* leaves the origin, x_carry and y_carry as they are; with an empty working
\* content it leaves the working segment unchanged.  No segment is emitted,
\* so the content of a segment never starts with a marker of the cases 4-5.
C22_ComesBeforeCase ==
    [][ \A args \in TdArgs :
          (args[1] < 0 /\ SameLineReposition(args))
          => ( /\ segment' = IF segment.content # <<>>
                             THEN [segment EXCEPT !.content = Append(@, comes_before)]
                             ELSE segment
               /\ extracted_segments' = extracted_segments
               /\ phase' = "extracting" ) ]_vars

C22_Witness ==
    /\ phase = "extracting"
    /\ nops = 3
    /\ segment.content = <<"a", comes_before>>
    /\ segment.origin_coordinates = <<72004, 700006>>
    /\ segment.x_translation_from_origin = 0
    /\ segment.y_translation_from_origin = 0
    /\ extracted_segments = <<>>

\* C23: a reposition that matches none of the cases 1 to 3 and has dx > 0,
\* with a non-empty working content and spacing = dx - cur_displacement:
\* when spacing > x_tolerance * font size a tab is appended and x_carry
\* is unchanged; else when spacing < -0.1 the working segment is unchanged;
\* otherwise the content is unchanged and dx is added to x_carry.  In each
\* case no segment is emitted and the extraction goes on.
C23_SpacingCase ==
    [][ \A args \in TdArgs :
          (args[1] > 0 /\ segment.content # <<>> /\ SameLineReposition(args))
          => LET spacing == args[1] - cur_displacement
             IN  /\ segment' =
                        IF spacing > x_tolerance * text_state.size
                        THEN [segment EXCEPT !.content = Append(@, tab)]
                        ELSE IF spacing < -100 THEN segment
                        ELSE [segment EXCEPT !.x_translation_from_origin = @ + args[1]]
                 /\ extracted_segments' = extracted_segments
                 /\ phase' = "extracting" ]_vars

C23_Witness ==
    /\ phase = "extracting"
    /\ nops = 3
    /\ segment.content = <<"a">>
    /\ segment.x_translation_from_origin = 5000
    /\ segment.y_translation_from_origin = 0
    /\ cur_displacement = 0
    /\ extracted_segments = <<>>

\* the font the show operators decode with
CurrentFont == pages[page].fonts[text_state.font_name]

\* glyph widths / 1000 * font size of the byte-runs of a TJ array, minus
\* value * font size / 1000 of its numeric adjustments
RECURSIVE ItemsDisplacement(_)
ItemsDisplacement(items) ==
    IF items = <<>> THEN 0
    ELSE (IF IsBytes(Head(items))
          THEN get_content_and_width(CurrentFont, Head(items).bytes).width * text_state.size
          ELSE 0 - Head(items).number * text_state.size)
         + ItemsDisplacement(Tail(items))

\* C24: the displacement is 0 when a page starts and after every reposition
\* (whichever case applied), font-select, restore-state and end-of-text; a
\* Tj adds its run's glyph width / 1000 * font size to it; a TJ adds that of
\* each of its byte-runs and subtracts value * font size / 1000 for each
\* numeric adjustment, appends only the decoded runs to the content, and
\* emits nothing and moves no carry; a save-state or an ignored operator
\* leaves it as it is.  Steps that abort the extraction are not covered; a
\* show operator with a font the page does not have is one of them.
C24_DisplacementAccumulator ==
    [][ /\ PageStart => cur_displacement' = 0
        /\ (VisitStep /\ phase' = "extracting")
             => /\ \/ cur_displacement' = 0
                   \/ ~ \/ \E args \in TdArgs : Visit("Td", args, DefaultPlacement)
                        \/ \E args \in TfArgs : FontStep(args)
                        \/ RestoreStep
                        \/ Visit("ET", <<>>, DefaultPlacement)
                /\ \A show \in TjShows :
                      \/ text_state.font_name \notin DOMAIN pages[page].fonts
                      \/ cur_displacement' = cur_displacement
                            + get_content_and_width(CurrentFont, show.args[1]).width
                              * text_state.size
                      \/ ~Visit("Tj", show.args, show.placement)
                /\ \A args \in TJArgs :
                      \/ text_state.font_name \notin DOMAIN pages[page].fonts
                      \/ /\ cur_displacement' = cur_displacement + ItemsDisplacement(args[1])
                         /\ segment'.content =
                                segment.content \o DecodedItems(CurrentFont, args[1])
                         /\ segment'.x_translation_from_origin = segment.x_translation_from_origin
                         /\ segment'.y_translation_from_origin = segment.y_translation_from_origin
                         /\ extracted_segments' = extracted_segments
                      \/ ~Visit("TJ", args, FlippedPlacement)
                /\ \/ cur_displacement' = cur_displacement
                   \/ ~(SaveStep \/ ignored') ]_vars

C24_Witness ==
    /\ phase = "extracting"
    /\ nops = 2
    /\ text_state = TextState("F1", 10)
    /\ segment.content = <<"a", "b">>
    /\ cur_displacement = 13000
    /\ extracted_segments = <<>>

\* the device-space point a show operation with these matrices starts at
ShowOrigin(placement) ==
    <<mult(placement.tm, placement.cm)[5], mult(placement.tm, placement.cm)[6]>>

\* C25: while the working segment has no origin, a show operator gives it
\* the translation of the product of its text and positioning matrices and
\* no other operator gives it one; once it has an origin, every operator
\* either leaves the origin as it is or resets the whole working segment;
\* and a segment that is emitted carries the origin the working segment had.
C25_OriginFrozen ==
    [][ (VisitStep /\ phase' = "extracting")
        => /\ Len(extracted_segments') > Len(extracted_segments)
                => extracted_segments'[Len(extracted_segments')].origin_coordinates
                       = segment.origin_coordinates
           /\ segment.origin_coordinates # None
                => \/ segment'.origin_coordinates = segment.origin_coordinates
                   \/ segment' = TextSegment
           /\ segment.origin_coordinates = None
                => /\ \A show \in TjShows :
                         \/ segment'.origin_coordinates = ShowOrigin(show.placement)
                         \/ ~Visit("Tj", show.args, show.placement)
                   /\ \A args \in TJArgs :
                         \/ segment'.origin_coordinates = ShowOrigin(FlippedPlacement)
                         \/ ~Visit("TJ", args, FlippedPlacement)
                   /\ \/ segment'.origin_coordinates = None
                      \/ \E show \in TjShows : Visit("Tj", show.args, show.placement)
                      \/ \E args \in TJArgs : Visit("TJ", args, FlippedPlacement) ]_vars

\* an emitted segment whose second run was shown elsewhere than its first
C25_Witness ==
    /\ phase = "extracting"
    /\ nops = 5
    /\ Len(extracted_segments) = 1
    /\ extracted_segments[1].content = <<"a", tab, "a", "b">>
    /\ extracted_segments[1].origin_coordinates = <<1000004, -8000>>
    /\ segment = TextSegment

\* C26: the content of an emitted segment does not end with a box_wrap.
C26_NoTrailingBoxWrapEmitted ==
    \A i \in 1..Len(extracted_segments) :
        LET content == extracted_segments[i].content
        IN  content = <<>> \/ content[Len(content)] # box_wrap

\* the serialized text of the page whose extraction ends
PageText ==
    Concat([i \in 1..Len(extracted_segments) |-> segment_to_str(extracted_segments[i])])

\* C27: the page index only moves from one page to the next; the extraction
\* of every page starts with the initial TextState, an empty state stack, an
\* empty working segment, no emitted segment and a zero displacement,
\* whatever the page before left; the text only changes when a page ends,
\* by that page's serialized text being appended to it (the first page is
\* appended to the empty text); and when the text is returned the last page
\* has been extracted.
C27_PagesIndependentInOrder ==
    /\ [](phase = "done" => page = Len(pages))
    /\ [][ /\ page' # page => (PageStart /\ page' = page + 1)
           /\ PageStart
                => /\ text_state' = [font_name |-> "", size |-> 0]
                   /\ text_state_stack' = <<>>
                   /\ segment' = TextSegment
                   /\ extracted_segments' = <<>>
                   /\ cur_displacement' = 0
                   /\ extracted_text' = IF page = 0 THEN <<>>
                                        ELSE extracted_text \o PageText
           /\ (extracted_text' # extracted_text /\ ~PageStart)
                => (phase' = "done" /\ extracted_text' = extracted_text \o PageText) ]_vars

\* the second page starts after a first page that emitted a segment
C27_Witness ==
    /\ phase = "extracting"
    /\ page = 2
    /\ nops = 5
    /\ text_state = [font_name |-> "", size |-> 0]
    /\ text_state_stack = <<>>
    /\ segment = TextSegment
    /\ extracted_segments = <<>>
    /\ Len(split(extracted_text, terminator)) = 2

\* the characters font f of the page being extracted decodes to
FontCharacters(f) ==
    {pages[page].fonts[f].unicode_map[cid] : cid \in DOMAIN pages[page].fonts[f].unicode_map}

\* C31: the shown text of every emitted segment was decoded by one font of
\* the page, whose class is the segment's font class; the shown text of the
\* working segment was decoded by the current font; and the TextState only
\* changes in a step that leaves the working segment empty, the segment it
\* emits, if any, carrying the class of the font that was current before.
C31_SegmentsSingleFont ==
    /\ []((phase \in {"extracting", "aborted", "done"} /\ page >= 1)
            => /\ \A i \in 1..Len(extracted_segments) :
                     \E f \in DOMAIN pages[page].fonts :
                        /\ Range(StripMarkers(extracted_segments[i].content))
                               \subseteq FontCharacters(f)
                        /\ extracted_segments[i].font_name
                               = pages[page].font_output_names[f]
               /\ StripMarkers(segment.content) # <<>>
                     => /\ text_state.font_name \in DOMAIN pages[page].fonts
                        /\ Range(StripMarkers(segment.content))
                               \subseteq FontCharacters(text_state.font_name))
    /\ [][ (VisitStep /\ phase' = "extracting")
             => /\ text_state' # text_state => segment' = TextSegment
                /\ Len(extracted_segments') > Len(extracted_segments)
                     => extracted_segments'[Len(extracted_segments')].font_name
                            = pages[page].font_output_names[text_state.font_name] ]_vars

\* two segments of different fonts were emitted, one after the other
C31_Witness ==
    /\ phase = "extracting"
    /\ nops = 5
    /\ Len(extracted_segments) = 2
    /\ extracted_segments[1].content = <<"a">>
    /\ extracted_segments[1].font_name = Normal
    /\ extracted_segments[2].content = <<"c">>
    /\ extracted_segments[2].font_name = Bold
    /\ segment = TextSegment

\* C32: every emitted segment has a non-empty content and an origin.
C32_EmittedSegmentsSerializable ==
    \A i \in 1..Len(extracted_segments) :
        /\ extracted_segments[i].content # <<>>
        /\ extracted_segments[i].origin_coordinates # None

\* C33: when the text of the document has been returned, the text shown on
\* its last page is all in the segments that page emitted.
C33_ShownTextEmittedAtEnd ==
    phase = "done"
        => StripMarkers(Concat([i \in 1..Len(extracted_segments) |->
                                   extracted_segments[i].content])) = shown

\* C35: a restore-state on an empty state stack aborts the extraction: no
\* text is returned then or later; the working segment was finalized first
\* (emitted when it had content, and reset), and the TextState and the
\* stack are left as they were.
C35_RestoreOnEmptyStackAborts ==
    [][ /\ (phase = "extracting" /\ text_state_stack = <<>> /\ RestoreStep)
             => /\ phase' = "aborted"
                /\ extracted_text' = extracted_text
                /\ UNCHANGED <<text_state, text_state_stack>>
                /\ (segment.content # <<>>
                      /\ text_state.font_name \in DOMAIN pages[page].font_output_names)
                     => /\ Len(extracted_segments') = Len(extracted_segments) + 1
                        /\ segment' = TextSegment
                /\ segment.content = <<>>
                     => /\ extracted_segments' = extracted_segments
                        /\ segment' = TextSegment
        /\ phase = "aborted" => (phase' = "aborted" /\ extracted_text' = extracted_text) ]_vars

\* a restore-state came third, after a font-select and a show
C35_Witness ==
    /\ phase = "aborted"
    /\ nops = 3
    /\ text_state_stack = <<>>
    /\ text_state = TextState("F1", 10)
    /\ Len(extracted_segments) = 1
    /\ extracted_segments[1].content = <<"a">>
    /\ segment = TextSegment
    /\ extracted_text = <<>>

(***************************************************************************)
(* Properties of the page-break filters (specification FilterSpec).        *)
(***************************************************************************)
\* a step in which the filter's loop handled input_lines[index]
FilterStep == fphase = "filtering" /\ index' = index + 1

CurrentLine == At(input_lines, index)
PreviousLine == At(input_lines, index - 1)

IsPrintedDateLine(line) == re_match(printed_date_line_regex, line)
IsVersusLine(line) == re_match(versus_line_regex, line)

\* C8 as stated: in the docket filter, the line matching the versus pattern
\* that is met inside a page-break region is kept verbatim and ends the
\* region.
C8_VersusLineKept ==
    [][ (FilterStep /\ document_type = "docket" /\ in_page_break
         /\ IsVersusLine(CurrentLine))
        => ( /\ output_lines' = Append(output_lines, CurrentLine)
             /\ in_page_break' = FALSE ) ]_vars

\* C8 amended: in the docket filter every line met inside a page-break
\* region is dropped, the versus line included; the region ends with the
\* line that immediately follows a versus line, which is dropped too; outside
\* a region a printed-date line opens a region and is dropped, and any other
\* line is kept verbatim at the end of the output.
C8_RegionEndsAfterVersusLine ==
    [][ (FilterStep /\ document_type = "docket")
        => IF in_page_break
           THEN /\ output_lines' = output_lines
                /\ in_page_break' = ~IsVersusLine(PreviousLine)
           ELSE IF IsPrintedDateLine(CurrentLine)
           THEN /\ output_lines' = output_lines
                /\ in_page_break' = TRUE
           ELSE /\ output_lines' = Append(output_lines, CurrentLine)
                /\ in_page_break' = FALSE ]_vars

C8_Witness ==
    /\ fphase = "returned"
    /\ document_type = "docket"
    /\ input_lines = <<BodyLine, PrintedLine, VersusLine, VersusNameLine, BodyLine, <<>> >>
    /\ output_lines = <<BodyLine, BodyLine, <<>> >>

\* the content of the line ends with "(Continued)" and its properties with "bold"
IsContinuationLine(line) == re_match(continuation_regex, line)
IsContinuationTextBox(line) == re_match(continuation_textbox_regex, line)

\* what follows the first box_wrap of the line
AfterFirstBoxWrap(line) ==
    LET k == CHOOSE k \in 1..Len(line) :
                 line[k] = box_wrap /\ \A j \in 1..(k - 1) : line[j] # box_wrap
    IN  [j \in 1..(Len(line) - k) |-> line[k + j]]

\* C9: in the court-summary filter a printed-date line outside a region
\* opens a region and is dropped; inside a region a line L is dropped unless
\* the line before it matches the bold "(Continued)" pattern and L does not,
\* in which case the region ends and L is kept: the part after its first
\* box_wrap when L shows "(Continued)" and a box_wrap inside a bold text box,
\* the whole of L otherwise.
C9_CourtSummaryRegion ==
    [][ (FilterStep /\ document_type = "court summary")
        => IF in_page_break
           THEN IF IsContinuationLine(PreviousLine) /\ ~IsContinuationLine(CurrentLine)
                THEN /\ in_page_break' = FALSE
                     /\ output_lines' =
                            Append(output_lines,
                                   IF IsContinuationTextBox(CurrentLine)
                                   THEN AfterFirstBoxWrap(CurrentLine)
                                   ELSE CurrentLine)
                ELSE /\ in_page_break' = TRUE
                     /\ output_lines' = output_lines
           ELSE IsPrintedDateLine(CurrentLine)
                    => (in_page_break' = TRUE /\ output_lines' = output_lines) ]_vars

C9_Witness ==
    /\ fphase = "returned"
    /\ document_type = "court summary"
    /\ input_lines = <<BodyLine, PrintedLine, ContinuedLine, ContinuedBoxLine, BodyLine, <<>> >>
    /\ output_lines = <<BodyLine, <<"B">> \o PropsBold, BodyLine, <<>> >>

\* C10: no line of the filtered text other than the first matches the
\* printed-date pattern.
C10_NoPrintedDateLineLeft ==
    fphase = "returned" =>
        LET lines == split(filtered_text, terminator)
        IN  \A i \in 2..Len(lines) : ~IsPrintedDateLine(lines[i])


\* out is lines with some lines left out and, when truncating, some text-box
\* lines cut to what follows their first box_wrap
RECURSIVE IsKeptFrom(_, _, _)
IsKeptFrom(out, lines, truncating) ==
    IF out = <<>> THEN TRUE
    ELSE IF lines = <<>> THEN FALSE
    ELSE IF \/ Head(out) = Head(lines)
            \/ /\ truncating
               /\ IsContinuationTextBox(Head(lines))
               /\ Head(out) = AfterFirstBoxWrap(Head(lines))
    THEN IsKeptFrom(Tail(out), Tail(lines), truncating)
    ELSE IsKeptFrom(out, Tail(lines), truncating)

C34_TextWithoutPageBreakUnchanged ==
    ( /\ fphase = "returned"
      /\ filter_text # <<>>
      /\ filter_text[Len(filter_text)] = terminator
      /\ \A i \in 1..Len(input_lines) : ~IsPrintedDateLine(input_lines[i]) )
        => filtered_text = filter_text

(***************************************************************************)
(* Properties of remove_page_breaks and get_document_type (specification   *)
(* RemoveSpec).                                                            *)
(***************************************************************************)
\* C12: filtering the filtered text again succeeds and returns it unchanged,
\* character for character.
C12_RemovePageBreaksIdempotent ==
    fphase = "returned"
        => remove_page_breaks(filtered_text) = [raised |-> "no", text |-> filtered_text]

\* C13 as stated: detecting the type of the filtered text succeeds and
\* yields the type the text was detected to have before filtering.
C13_TypeStableUnderFiltering ==
    fphase = "returned"
        => get_document_type(filtered_text) = [raised |-> "no", type |-> document_type]

\* C13 amended: when the second line of the text does not match the
\* printed-date pattern, detecting the type of the filtered text succeeds
\* and yields the type the text was detected to have before filtering.
C13_TypeStableWhenSecondLineKept ==
    (fphase = "returned" /\ ~IsPrintedDateLine(input_lines[2]))
        => get_document_type(filtered_text) = [raised |-> "no", type |-> document_type]

C13_Witness ==
    /\ fphase = "returned"
    /\ input_lines = <<BodyLine, CourtSummaryTitleLine, PrintedLine, <<>> >>
    /\ output_lines = <<BodyLine, CourtSummaryTitleLine>>
    /\ document_type = "court summary"
    /\ get_document_type(filtered_text).type = "court summary"

\* C14: the type detected is "docket" when the lower-cased second line of
\* the text contains "docket", "court summary" when it contains "court
\* summary" and not "docket"; in every other case, a text with no second
\* line included, detection fails with the ParseError.
C14_TypeFromSecondLine ==
    fphase # "called"
        => LET lines == split(filter_text, terminator)
               has(keyword) == Len(lines) >= 2 /\ Contains(keyword, lower(lines[2]))
           IN  IF has(<<"d","o","c","k","e","t">>)
               THEN fphase \in {"filtering", "returned"} /\ document_type = "docket"
               ELSE IF has(<<"c","o","u","r","t"," ","s","u","m","m","a","r","y">>)
               THEN fphase \in {"filtering", "returned"} /\ document_type = "court summary"
               ELSE fphase = "ParseError"


(***************************************************************************)
(* Properties of parse_extracted_text and the money visitor                *)
(* (specification ParseSpec).                                              *)
(***************************************************************************)
\* C15: parse_extracted_text returns normally only when no fatal error
\* occurred: the type was detected, the grammar parsed the text and the
\* reduction of the tree raised nothing.
C15_FatalErrorsPropagate ==
    [][ pphase' = "returned"
        => ( /\ pphase = "parsed"
             /\ get_document_type(filter_text).raised = "no"
             /\ visit(tree).raised = "no" ) ]_vars

\* C16: the money reducer trims the literal and removes its commas; a
\* literal that then starts with "$" gives the non-negative amount after it,
\* a literal "($X)" gives -X, and a literal whose first character is neither
\* "$" nor "(" raises ParseError; "$1,234.56" gives 1234.56 and "($500.00)"
\* gives -500.0 (amounts in hundredths), and a tree reduced without error
\* returns these amounts.
C16_MoneyReducer ==
    pphase \in {"parsed", "returned"}
        => \A i \in 1..Len(tree) :
              LET money == remove(strip(tree[i]), ",")
                  reduced == visit_money(tree[i])
              IN  /\ money[1] = "$"
                        => /\ reduced.raised = "no"
                           /\ reduced.money_float = float(Tail(money)).value
                           /\ reduced.money_float >= 0
                  /\ (money[1] = "(" /\ money[2] = "$" /\ money[Len(money)] = ")")
                        => /\ reduced.raised = "no"
                           /\ reduced.money_float = -float(SubSeq(money, 3, Len(money) - 1)).value
                           /\ reduced.money_float <= 0
                  /\ money[1] \notin {"$", "("} => reduced.raised = "ParseError"
                  /\ tree[i] = <<"$","1",",","2","3","4",".","5","6">>
                        => reduced.money_float = 123456
                  /\ tree[i] = <<"(","$","5","0","0",".","0","0",")">>
                        => reduced.money_float = -50000
                  /\ (pphase = "returned" /\ visit(tree).raised = "no")
                        => parsed[i] = reduced.money_float

C16_Witness ==
    /\ pphase = "returned"
    /\ tree = << <<"$","1",",","2","3","4",".","5","6">>, <<"(","$","5","0","0",".","0","0",")">> >>
    /\ parsed = <<123456, -50000>>


\* C28: from detection on, the type is the one detected on the unfiltered
\* text, the grammar is the grammar of that type, and the text handed to the
\* grammar is the court-summary filter's output for a court summary and the
\* unfiltered text for a docket; the visitor of a call that returned is the
\* visitor of that type.  The type and the text handed to the grammar are
\* set in the detection step only, the tree is built after it, and the text
\* the call was given never changes.
C28_TypeSelectsPipeline ==
    /\ [](pphase \in {"detected", "parsed", "returned"}
            => LET type == get_document_type(filter_text).type
               IN  /\ type \in {"docket", "court summary"}
                   /\ document_type = type
                   /\ grammar = IF type = "court summary" THEN "court_summary_grammar.ppeg"
                                ELSE "docket_grammar.ppeg"
                   /\ filtered_text = IF type = "court summary"
                                      THEN remove_court_summary_page_breaks(filter_text)
                                      ELSE filter_text
                   /\ pphase = "returned"
                        => visitor = IF type = "court summary" THEN "CourtSummaryVisitor"
                                     ELSE "DocketVisitor")
    /\ [][ /\ (document_type' # document_type \/ filtered_text' # filtered_text
                 \/ grammar' # grammar) => pphase = "called"
           /\ tree' # tree => (pphase = "detected" /\ pphase' = "parsed")
           /\ visitor' # visitor => (pphase = "parsed" /\ pphase' = "returned")
           /\ filter_text' = filter_text ]_vars

\* a docket with a page break went through the pipeline unfiltered
C28_Witness ==
    /\ pphase = "returned"
    /\ document_type = "docket"
    /\ filter_text =
          SerializedText(<<BodyLine, DocketTitleLine, PrintedLine, VersusLine, BodyLine>>)
    /\ filtered_text = filter_text
    /\ grammar = "docket_grammar.ppeg"
    /\ visitor = "DocketVisitor"
    /\ Len(tree) = 2

(***************************************************************************)
(* Properties of the string leaf visitors (specification LeafSpec).        *)
(***************************************************************************)
\* C29: for both visitors, the dictionary a string leaf visitor returns has
\* the leaf name as its only key, and its value holds no box_wrap and
\* neither starts nor ends with whitespace.
C29_StringLeafReducer ==
    pphase = "returned"
        => /\ DOMAIN parsed = {tree.expr_name}
           /\ LET value == parsed[tree.expr_name]
              IN  /\ box_wrap \notin Range(value)
                  /\ value # <<>> => ( /\ value[1] \notin Whitespace
                                       /\ value[Len(value)] \notin Whitespace )

(***************************************************************************)
(* Properties of visit_county_section (specification CountySpec).          *)
(***************************************************************************)
\* the dicts the county section's loop goes through, as they were given
GivenChildren == flatten(visited_children)

\* the positions of the county headings before position i
HeadingsBefore(i) == {j \in 1..(i - 1) : HasKey(GivenChildren[j], "county")}

\* C30: the call raises exactly when some docket-number record has no
\* county heading before it; when it returns, every docket-number record
\* has a county entry equal to that of the last heading before it and keeps
\* its other entries, every heading has lost its county entry, and the
\* children are as many and in the same order as before.
C30_CountyHeadingApplies ==
    /\ pphase = "RuntimeError"
          <=> ( /\ pphase # "called"
                /\ \E i \in 1..Len(GivenChildren) :
                      /\ HasKey(GivenChildren[i], "docket_number")
                      /\ HeadingsBefore(i) = {} )
    /\ pphase = "returned"
          => /\ Len(flattened) = Len(GivenChildren)
             /\ \A i \in 1..Len(GivenChildren) :
                   LET given == GivenChildren[i]
                       returned == flattened[i]
                   IN  IF HasKey(given, "docket_number")
                       THEN LET heading == CHOOSE j \in HeadingsBefore(i) :
                                               \A k \in HeadingsBefore(i) : k <= j
                            IN  /\ HasKey(returned, "county")
                                /\ Item(returned, "county")
                                       = Item(GivenChildren[heading], "county")
                                /\ Popped(returned, "county") = given
                       ELSE /\ ~HasKey(returned, "county")
                            /\ returned = Popped(given, "county")

\* two headings, each followed by a record, the second pair in a nested list
C30_Witness ==
    /\ pphase = "returned"
    /\ visited_children =
          << Dict(<<Leaf("county", "Adams")>>),
             Dict(<<Leaf("docket_number", "CP-1"), Leaf("otn", "T 1")>>),
             List(<< Dict(<<Leaf("county", "Bucks")>>),
                     Dict(<<Leaf("docket_number", "CP-1"), Leaf("otn", "T 1")>>) >>) >>
    /\ flattened =
          << Dict(<<>>),
             Dict(<<Leaf("docket_number", "CP-1"), Leaf("otn", "T 1"), Leaf("county", "Adams")>>),
             Dict(<<>>),
             Dict(<<Leaf("docket_number", "CP-1"), Leaf("otn", "T 1"), Leaf("county", "Bucks")>>) >>

(***************************************************************************)
(* Properties of flatten (specification FlattenSpec).                      *)
(***************************************************************************)
\* the item is a list that holds, at any depth, nothing but lists
RECURSIVE IsEmptyNest(_)
IsEmptyNest(item) ==
    /\ item.kind = "list"
    /\ \A i \in 1..Len(item.items) : IsEmptyNest(item.items[i])

\* C17: the items yielded are ints and strs only, never a list or a raw
\* Node; they are, from left to right, what each child contributes: nothing
\* for a raw Node, the child itself for an int or a str (kept whole), the
\* flattening of its items for a list; a flat list without raw Nodes is
\* yielded unchanged and nested empty lists yield nothing.
C17_FlattenDepthFirst ==
    pphase = "returned"
        => /\ \A i \in 1..Len(flattened) : flattened[i].kind \in {"int", "str"}
           /\ flattened =
                 Concat([i \in 1..Len(visited_children) |->
                            LET child == visited_children[i]
                            IN  IF child.kind = "Node" THEN <<>>
                                ELSE IF child.kind = "list" THEN flatten(child.items)
                                ELSE <<child>>])
           /\ (\A i \in 1..Len(visited_children) : visited_children[i].kind \in {"int", "str"})
                 => flattened = visited_children
           /\ (\A i \in 1..Len(visited_children) : IsEmptyNest(visited_children[i]))
                 => flattened = <<>>

C17_Witness ==
    /\ pphase = "returned"
    /\ visited_children =
           <<List(<<List(<<Leaf("int", "1"), Leaf("Node", "")>>), Leaf("str", "hello")>>)>>
    /\ flattened = <<Leaf("int", "1"), Leaf("str", "hello")>>

=============================================================================
